---- MODULE Spec2Model ----
(***************************************************************************)
(* GalleryPy event-coordination core (src/main.py): the per-key debounced  *)
(* TaskQueue, the FiniteStateMachine engine and the DependencyManager.     *)
(*                                                                         *)
(* Execution is single threaded: a Tk event loop that runs one callback    *)
(* at a time.  A thunk that is executing is a frame of `stack`; only the   *)
(* top frame acts, and timers fire only when the stack is empty.           *)
(* Time is counted in ticks of 5 ms; a timer fires when its delay has      *)
(* elapsed and the event loop is idle, before the clock moves on.          *)
(***************************************************************************)
EXTENDS Naturals, Integers, Sequences, FiniteSets, TLC

VARIABLES
    root,            \* TaskQueue.root: None or the Tk root
    task_queues,     \* TaskQueue.task_queues: dict key -> FIFO of thunks
    running_tasks,   \* TaskQueue.running_tasks: dict key -> bool
    debounce_tasks,  \* TaskQueue.debounce_tasks: dict key -> after() id
    timers,          \* Tk's pending after() callbacks
    stack,           \* thunks being executed (innermost last)
    nextThunk,       \* identity of the next thunk handed to enqueue_task
    appendLog,       \* history: per key, thunks in the order they were put
    startLog,        \* history: per key, thunks in the order they started
    lastDeb,         \* history: per key, the last debounced call and its age
    coalesced,       \* history: thunks followed within their delay by a call
    spaced,          \* history: thunks followed after more than their delay
    superseded,      \* history: thunks whose pending timer was superseded
    sinceReturn,     \* history: per key, ticks since its last thunk returned
    startGap,        \* history: per key, sinceReturn when its last thunk started
    calls,           \* history: per thunk, the thunk that enqueued it (0: the event loop) and how
    raised,          \* history: thunks that raised
    current_state,   \* FiniteStateMachine.current_state
    previous_state,  \* FiniteStateMachine.previous_state
    transitions,     \* FiniteStateMachine.transitions: dict state -> list of states
    state_actions,   \* FiniteStateMachine.state_actions: dict state -> action
    fsm_call,        \* history: the last call on the machine and the state it was made in
    fsm_invoked,     \* history: the entry actions that call invoked, in order
    dependency_states, \* DependencyManager.dependency_states, in insertion order
    dm_cycle,        \* history: per follow-up, the required names marked in its current cycle
    dm_call,         \* history: the last call on the manager and the follow-ups due in it
    dm_invoked,      \* history: the follow-ups that call invoked, in order
    dm_fired,        \* history: per follow-up, how often it was invoked (counted up to MaxFired)
    window_fsm,      \* App.window_fsm
    page_fsm,        \* App.page_fsm
    cursor_fsm,      \* App.cursor_fsm
    menu_status_fsm, \* App.menu_status_fsm
    is_window_fullscreen, \* App.is_window_fullscreen
    root_state,      \* what root.state() returns: the platform's window state
    root_size,       \* what root.winfo_width()/winfo_height() return
    app_size,        \* App.app_width, App.app_height
    app_geometry_before_maximized, \* App.app_geometry_before_maximized (the size in it)
    menubar,         \* whether root's menu option holds the menubar
    menu_entries,    \* which entries of the View > Window menu are active
    status_frame,    \* whether the img page's status frame is gridded
    buttons,         \* whether page_data['buttons'] holds the prev/next buttons
    arrows,          \* whether the prev/next buttons are placed
    image,           \* current_image_file_path: None, a readable file, an unreadable one
    events,          \* history: notifications, key presses and commands so far
    app_call,        \* history: the last callback the event loop ran and what it did
    storm,           \* history: the current train of Configure notifications
    alt_run,         \* history: the current run of Alt key presses
    episode,         \* history: the last zoomed notification and what followed it
    current_image_file_paths, \* App.current_image_file_paths
    current_image_file_idx,   \* App.current_image_file_idx: <<>> for None, <<i>> for the index i
    nav_call         \* history: the last two prev/next steps and the index each started from

tqvars == <<root, task_queues, running_tasks, debounce_tasks, timers, stack, nextThunk, appendLog, startLog, lastDeb, coalesced, spaced, superseded, sinceReturn, startGap, calls, raised>>

fsmvars == <<current_state, previous_state, transitions, state_actions, fsm_call, fsm_invoked>>

dmvars == <<dependency_states, dm_cycle, dm_call, dm_invoked, dm_fired>>

appvars == <<window_fsm, page_fsm, cursor_fsm, menu_status_fsm, is_window_fullscreen, root_state, root_size, app_size, app_geometry_before_maximized, menubar, menu_entries, status_frame, buttons, arrows, image, events, app_call, storm, alt_run, episode, current_image_file_paths, current_image_file_idx, nav_call>>

vars == <<tqvars, fsmvars, dmvars, appvars>>

---------------------------------------------------------------------------
(* Bounds and inputs *)

Keys == {"k1", "k2"}

\* the keys used where progress is checked
LiveKeys == {"k1"}

\* enqueue_task calls in one behaviour
MaxThunks == 3

\* root.after(10, ...) of process_queue: 10 ms = 2 ticks
SettleDelay == 2

\* the delay argument of enqueue_task, in ticks (15 ms)
Delays == {3}

None == "None"

Tk == "tk"

NoCall == [thunk |-> 0, delay |-> 0, age |-> 0]

NoGap == [gap |-> -1, rooted |-> FALSE, overlap |-> FALSE]

Put(d, k, v) == [x \in DOMAIN d \cup {k} |-> IF x = k THEN v ELSE d[x]]

SeqSet(s) == {s[i] : i \in 1..Len(s)}

NoFsmCall == [op |-> "none", arg |-> None, from |-> None, prev |-> None, ok |-> FALSE, result |-> None]

NoDmCall == [op |-> "none", arg |-> None, due |-> {}, known |-> FALSE, dropped |-> {}]

\* FiniteStateMachine(initial_state): nothing declared yet
Machine(initial_state) == [current_state |-> initial_state, previous_state |-> None, transitions |-> <<>>, state_actions |-> <<>>]

\* class App before App(): the class-level machines exist, no instance attribute does
IdleApp ==
    /\ window_fsm = Machine("__init__")
    /\ page_fsm = Machine("__init__")
    /\ cursor_fsm = Machine("__init__")
    /\ menu_status_fsm = Machine("__init__")
    /\ is_window_fullscreen = FALSE
    /\ root_state = None
    /\ root_size = None
    /\ app_size = None
    /\ app_geometry_before_maximized = None
    /\ menubar = None
    /\ menu_entries = None
    /\ status_frame = FALSE
    /\ buttons = FALSE
    /\ arrows = FALSE
    /\ image = None
    /\ events = 0
    /\ app_call = None
    /\ storm = None
    /\ alt_run = None
    /\ episode = None
    /\ current_image_file_paths = <<>>
    /\ current_image_file_idx = <<>>
    /\ nav_call = None

\* FiniteStateMachine(): constructed, nothing declared
IdleFSM ==
    /\ current_state = None
    /\ previous_state = None
    /\ transitions = <<>>
    /\ state_actions = <<>>
    /\ fsm_call = NoFsmCall
    /\ fsm_invoked = <<>>

\* DependencyManager(): constructed, nothing registered
IdleDM ==
    /\ dependency_states = <<>>
    /\ dm_cycle = <<>>
    /\ dm_call = NoDmCall
    /\ dm_invoked = <<>>
    /\ dm_fired = <<>>

---------------------------------------------------------------------------
(* TaskQueue *)

\* The queue's fields and the event loop, as one value the methods transform.
TQ == [root |-> root, task_queues |-> task_queues, running_tasks |-> running_tasks, debounce_tasks |-> debounce_tasks, timers |-> timers, stack |-> stack, appendLog |-> appendLog, startLog |-> startLog, sinceReturn |-> sinceReturn, startGap |-> startGap]

\* a bug: the superseded timer is not cancelled
after_cancel_nothing(ts, id) == ts

\* root.after_cancel(id): a pending callback is dropped, a fired one is unknown to Tk
after_cancel(ts, id) == {t \in ts : t.id # id}

\* the id root.after returns: one no pending callback and no debounce_tasks entry holds
after_id(s) == CHOOSE i \in 1..(Cardinality(s.timers) + Cardinality(DOMAIN s.debounce_tasks) + 1) : (\A t \in s.timers : t.id # i) /\ (\A k \in DOMAIN s.debounce_tasks : s.debounce_tasks[k] # i)

\* root.after(ms, callback)
after(s, ms, kind, k, t) == [s EXCEPT !.timers = @ \cup {[id |-> after_id(s), kind |-> kind, key |-> k, thunk |-> t, left |-> ms]}]

\* a bug: the running flag is not consulted
process_queue_unguarded(s, k) ==
    IF s.task_queues[k] # <<>>
    THEN [s EXCEPT !.running_tasks[k] = TRUE,
                   !.task_queues[k] = Tail(@),
                   !.stack = Append(@, [key |-> k, thunk |-> Head(s.task_queues[k])]),
                   !.startLog[k] = Append(@, Head(s.task_queues[k])),
                   !.startGap[k] = [s.sinceReturn[k] EXCEPT !.overlap = \E i \in 1..Len(s.stack) : s.stack[i].key = k]]
    ELSE s

\* process_queue up to and including the call task(): the thunk becomes the top frame
process_queue(s, k) ==
    IF ~s.running_tasks[k] /\ s.task_queues[k] # <<>>
    THEN [s EXCEPT !.running_tasks[k] = TRUE,
                   !.task_queues[k] = Tail(@),
                   !.stack = Append(@, [key |-> k, thunk |-> Head(s.task_queues[k])]),
                   !.startLog[k] = Append(@, Head(s.task_queues[k])),
                   !.startGap[k] = [s.sinceReturn[k] EXCEPT !.overlap = \E i \in 1..Len(s.stack) : s.stack[i].key = k]]
    ELSE s

\* a bug: the thunk is put at the head of the queue
_add_task_to_queue_at_head(s, k, t) ==
    LET s1 == IF k \notin DOMAIN s.task_queues
              THEN [s EXCEPT !.task_queues = Put(@, k, <<>>), !.running_tasks = Put(@, k, FALSE)]
              ELSE s
        s2 == [s1 EXCEPT !.task_queues[k] = <<t>> \o @, !.appendLog[k] = Append(@, t)]
    IN process_queue(s2, k)

_add_task_to_queue(s, k, t) ==
    LET s1 == IF k \notin DOMAIN s.task_queues
              THEN [s EXCEPT !.task_queues = Put(@, k, <<>>), !.running_tasks = Put(@, k, FALSE)]
              ELSE s
        s2 == [s1 EXCEPT !.task_queues[k] = Append(@, t), !.appendLog[k] = Append(@, t)]
    IN process_queue(s2, k)

\* a bug: finish_task clears the running flag of every key
finish_task_clears_all(s, k) == process_queue([s EXCEPT !.running_tasks = [x \in DOMAIN @ |-> FALSE]], k)

\* a bug: the flag is cleared and the queue is not looked at again
finish_task_flag_only(s, k) == [s EXCEPT !.running_tasks[k] = FALSE]

finish_task(s, k) == process_queue([s EXCEPT !.running_tasks[k] = FALSE], k)

\* a bug: while an insertion is scheduled for the key, a new call is dropped
enqueue_debounced_keeps_first(s, k, t, delay) ==
    IF \E x \in s.timers : x.kind = "add" /\ x.key = k
    THEN s
    ELSE [after(s, delay, "add", k, t) EXCEPT !.debounce_tasks = Put(@, k, after_id(s))]

\* enqueue_task with debounce=True: cancel the last scheduled insertion, schedule the new one
\* (an entry of debounce_tasks is what after returned, never None)
enqueue_debounced(s, k, t, delay) ==
    LET s1 == IF k \in DOMAIN s.debounce_tasks
              THEN [s EXCEPT !.timers = after_cancel(@, s.debounce_tasks[k])]
              ELSE s
        s2 == after(s1, delay, "add", k, t)
    IN [s2 EXCEPT !.debounce_tasks = Put(@, k, after_id(s1))]

\* a bug: every call goes through the timer, debounce or not
enqueue_task_deferred(s, k, t, debounce, delay) == enqueue_debounced(s, k, t, delay)

enqueue_task(s, k, t, debounce, delay) ==
    IF debounce THEN enqueue_debounced(s, k, t, delay) ELSE _add_task_to_queue(s, k, t)

\* a bug: finish_task is called at once, root or not
task_returned_no_settle(s, k) ==
    finish_task([s EXCEPT !.stack = SubSeq(@, 1, Len(@) - 1), !.sinceReturn[k] = [gap |-> 0, rooted |-> s.root # None, overlap |-> FALSE]], k)

\* process_queue after task() has returned: finish at once without a root, else after the settle delay
task_returned(s, k) ==
    LET s1 == [s EXCEPT !.stack = SubSeq(@, 1, Len(@) - 1), !.sinceReturn[k] = [gap |-> 0, rooted |-> s.root # None, overlap |-> FALSE]]
    IN IF s1.root = None THEN finish_task(s1, k) ELSE after(s1, SettleDelay, "finish", k, 0)

\* task() raised: the exception leaves process_queue, nothing after the call runs
task_raised(s, k) ==
    [s EXCEPT !.stack = SubSeq(@, 1, Len(@) - 1), !.sinceReturn[k] = [gap |-> 0, rooted |-> s.root # None, overlap |-> FALSE]]

\* a due after() callback runs
timer_callback(s, t) ==
    LET s1 == [s EXCEPT !.timers = @ \ {t}]
    IN IF t.kind = "add" THEN _add_task_to_queue(s1, t.key, t.thunk) ELSE finish_task(s1, t.key)

SetTQ(s) ==
    /\ root' = s.root
    /\ task_queues' = s.task_queues
    /\ running_tasks' = s.running_tasks
    /\ debounce_tasks' = s.debounce_tasks
    /\ timers' = s.timers
    /\ stack' = s.stack
    /\ appendLog' = s.appendLog
    /\ startLog' = s.startLog
    /\ sinceReturn' = s.sinceReturn
    /\ startGap' = s.startGap

Caller == IF stack = <<>> THEN 0 ELSE stack[Len(stack)].thunk

Pending(k) == {t \in timers : t.kind = "add" /\ t.key = k}

InitTQ ==
    /\ root = None
    /\ task_queues = <<>>
    /\ running_tasks = <<>>
    /\ debounce_tasks = <<>>
    /\ timers = {}
    /\ stack = <<>>
    /\ nextThunk = 1
    /\ appendLog = [k \in Keys |-> <<>>]
    /\ startLog = [k \in Keys |-> <<>>]
    /\ lastDeb = [k \in Keys |-> NoCall]
    /\ coalesced = {}
    /\ spaced = {}
    /\ superseded = {}
    /\ sinceReturn = [k \in Keys |-> NoGap]
    /\ startGap = [k \in Keys |-> NoGap]
    /\ calls = <<>>
    /\ raised = {}

\* TaskQueue.set_root
SetRoot ==
    /\ root = None
    /\ root' = Tk
    /\ UNCHANGED <<task_queues, running_tasks, debounce_tasks, timers, stack, nextThunk, appendLog, startLog, lastDeb, coalesced, spaced, superseded, sinceReturn, startGap, calls, raised, fsmvars, dmvars, appvars>>

\* enqueue_task(key, thunk, debounce=False), from the event loop or from the executing thunk
EnqueueNow(k) ==
    /\ nextThunk <= MaxThunks
    /\ SetTQ(enqueue_task(TQ, k, nextThunk, FALSE, 0))
    /\ nextThunk' = nextThunk + 1
    /\ calls' = Put(calls, nextThunk, [by |-> Caller, key |-> k, deb |-> FALSE])
    /\ UNCHANGED <<lastDeb, coalesced, spaced, superseded, raised, fsmvars, dmvars, appvars>>

\* enqueue_task(key, thunk, debounce=True, delay); without a root self.root.after raises
EnqueueDebounced(k, delay) ==
    /\ nextThunk <= MaxThunks
    /\ root # None
    /\ SetTQ(enqueue_task(TQ, k, nextThunk, TRUE, delay))
    /\ nextThunk' = nextThunk + 1
    /\ lastDeb' = [lastDeb EXCEPT ![k] = [thunk |-> nextThunk, delay |-> delay, age |-> 0]]
    /\ coalesced' = IF lastDeb[k].thunk # 0 /\ lastDeb[k].age < lastDeb[k].delay THEN coalesced \cup {lastDeb[k].thunk} ELSE coalesced
    /\ spaced' = IF lastDeb[k].thunk # 0 /\ lastDeb[k].age > lastDeb[k].delay THEN spaced \cup {lastDeb[k].thunk} ELSE spaced
    /\ superseded' = superseded \cup {t.thunk : t \in Pending(k)}
    /\ calls' = Put(calls, nextThunk, [by |-> Caller, key |-> k, deb |-> TRUE])
    /\ UNCHANGED <<raised, fsmvars, dmvars, appvars>>

\* enqueue_task(key, thunk, debounce=True) on a queue without a root: no entry of
\* debounce_tasks exists, self.root.after raises AttributeError, nothing has changed
EnqueueDebouncedNoRoot(k) ==
    /\ nextThunk <= MaxThunks
    /\ root = None
    /\ k \notin DOMAIN debounce_tasks
    /\ UNCHANGED vars

\* the executing thunk returns to process_queue
ThunkReturn ==
    /\ stack # <<>>
    /\ SetTQ(task_returned(TQ, stack[Len(stack)].key))
    /\ UNCHANGED <<nextThunk, lastDeb, coalesced, spaced, superseded, calls, raised, fsmvars, dmvars, appvars>>

\* the executing thunk raises
ThunkRaise ==
    /\ stack # <<>>
    /\ SetTQ(task_raised(TQ, stack[Len(stack)].key))
    /\ raised' = raised \cup {stack[Len(stack)].thunk}
    /\ UNCHANGED <<nextThunk, lastDeb, coalesced, spaced, superseded, calls, fsmvars, dmvars, appvars>>

\* the idle event loop runs a due callback
FireTimer ==
    /\ stack = <<>>
    /\ \E t \in timers :
        /\ t.left = 0
        /\ SetTQ(timer_callback(TQ, t))
    /\ UNCHANGED <<nextThunk, lastDeb, coalesced, spaced, superseded, calls, raised, fsmvars, dmvars, appvars>>

Aged(c) == IF c.thunk # 0 /\ c.age <= c.delay THEN [c EXCEPT !.age = @ + 1] ELSE c

Settled(g) == IF g.gap >= 0 /\ g.gap < SettleDelay THEN [g EXCEPT !.gap = @ + 1] ELSE g

\* one tick passes while the event loop is idle and no callback is due
Tick ==
    /\ stack = <<>>
    /\ timers # {}
    /\ \A t \in timers : t.left > 0
    /\ timers' = {[t EXCEPT !.left = @ - 1] : t \in timers}
    /\ lastDeb' = [k \in Keys |-> Aged(lastDeb[k])]
    /\ sinceReturn' = [k \in Keys |-> Settled(sinceReturn[k])]
    /\ UNCHANGED <<root, task_queues, running_tasks, debounce_tasks, stack, nextThunk, appendLog, startLog, coalesced, spaced, superseded, startGap, calls, raised, fsmvars, dmvars, appvars>>

NextTQ ==
    \/ SetRoot
    \/ \E k \in Keys : EnqueueNow(k)
    \/ \E k \in Keys, d \in Delays : EnqueueDebounced(k, d)
    \/ \E k \in Keys : EnqueueDebouncedNoRoot(k)
    \/ ThunkReturn
    \/ ThunkRaise
    \/ FireTimer
    \/ Tick

\* the queue on its own: the machine and the manager are constructed and not used
InitQueue == InitTQ /\ IdleFSM /\ IdleDM /\ IdleApp

SpecTQ == InitQueue /\ [][NextTQ]_vars

\* no thunk raises, and the event loop keeps running: due callbacks fire, executing thunks return, time passes
NextTQLive ==
    \/ SetRoot
    \/ \E k \in LiveKeys : EnqueueNow(k)
    \/ \E k \in LiveKeys, d \in Delays : EnqueueDebounced(k, d)
    \/ \E k \in LiveKeys : EnqueueDebouncedNoRoot(k)
    \/ ThunkReturn
    \/ FireTimer
    \/ Tick

SpecTQLive == InitQueue /\ [][NextTQLive]_vars /\ WF_vars(ThunkReturn) /\ WF_vars(FireTimer) /\ WF_vars(Tick)

---------------------------------------------------------------------------
(* TaskQueue properties *)

Executing(k) == {i \in 1..Len(stack) : stack[i].key = k}

Appended == UNION {SeqSet(appendLog[k]) : k \in Keys}

Started == UNION {SeqSet(startLog[k]) : k \in Keys}

NoDuplicates(q) == \A i, j \in 1..Len(q) : q[i] = q[j] => i = j

IsPrefix(p, q) == Len(p) <= Len(q) /\ \A i \in 1..Len(p) : p[i] = q[i]

Queued(k) == IF k \in DOMAIN task_queues THEN task_queues[k] ELSE <<>>

\* C1: at most one thunk of a key is executing at any instant, also when the
\* executing thunk enqueues on its own key.
C1_OneExecutingPerKey == \A k \in Keys : Cardinality(Executing(k)) <= 1

\* an executing thunk has enqueued, without debounce, on its own key, and that thunk waits
C1_Witness ==
    \E i \in 1..Len(stack) : \E u \in DOMAIN calls :
        /\ calls[u].by = stack[i].thunk
        /\ calls[u].key = stack[i].key
        /\ ~calls[u].deb
        /\ u \in SeqSet(Queued(stack[i].key))

\* C2: of debounced calls on one key each made less than its delay after the
\* previous one, only the last call's thunk is appended, once; a call followed
\* by the next one after more than its delay has had its thunk appended, so N
\* spaced calls append N thunks.
C2_DebounceCoalesces ==
    /\ coalesced \cap Appended = {}
    /\ spaced \subseteq Appended
    /\ \A k \in Keys : lastDeb[k].thunk # 0 /\ lastDeb[k].age > lastDeb[k].delay => lastDeb[k].thunk \in SeqSet(appendLog[k])
    /\ \A k \in Keys : NoDuplicates(appendLog[k])

\* three debounced calls on one key: the second long after the first, the third
\* within the second's delay; the first and the third were appended
C2_Witness ==
    \E k \in Keys :
        /\ Cardinality(coalesced) = 1
        /\ Cardinality(spaced) = 1
        /\ lastDeb[k].age > lastDeb[k].delay
        /\ Len(appendLog[k]) = 2
        /\ \A t \in DOMAIN calls : calls[t].key = k /\ calls[t].deb

\* C5: a thunk that raises is treated as completed: the running flag of its key
\* is going to be cleared (the thunk is still executing, or finish_task is
\* scheduled), so the key is never stuck.
C5_RaiseTreatedAsCompleted ==
    \A k \in DOMAIN running_tasks :
        running_tasks[k] => Executing(k) # {} \/ \E t \in timers : t.kind = "finish" /\ t.key = k

\* C6: a thunk never starts before the previous thunk of its key has returned
\* and the settle delay after it has elapsed.
C6_SettleBeforeNextStart ==
    \A k \in Keys : ~startGap[k].overlap /\ (startGap[k].gap = -1 \/ startGap[k].gap >= SettleDelay)

\* C6 as amended: a thunk never starts before the previous thunk of its key has
\* returned, and, when the queue had a root at that return, not before the
\* settle delay has elapsed.
C6_SettleBeforeNextStartWithRoot ==
    \A k \in Keys : ~startGap[k].overlap /\ (startGap[k].rooted => startGap[k].gap >= SettleDelay)

\* a second thunk of a key has started after the settle delay, having waited in the queue
C6_Witness ==
    \E k \in Keys : startGap[k].rooted /\ startGap[k].gap >= SettleDelay /\ Len(startLog[k]) >= 2

\* C7: the thunks of a key start in the order in which they were appended.
C7_FifoStartOrder == \A k \in Keys : IsPrefix(startLog[k], appendLog[k])

\* a debounced thunk started after a thunk that was enqueued later without debounce
C7_Witness ==
    \E k \in Keys : \E i, j \in 1..Len(startLog[k]) :
        /\ i < j
        /\ startLog[k][i] > startLog[k][j]
        /\ calls[startLog[k][j]].deb
        /\ ~calls[startLog[k][i]].deb

\* C9: the thunk of a debounce timer superseded by a later debounced call on
\* its key is never appended and never executed.
C9_SupersededNeverRuns == superseded \cap (Appended \cup Started) = {}

\* a timer was superseded and the thunk of the call that superseded it has run
C9_Witness ==
    \E k \in Keys : \E t \in superseded :
        /\ calls[t].key = k
        /\ lastDeb[k].thunk \in SeqSet(startLog[k])

\* C8: when timers fire and no thunk raises, every thunk appended to a key's
\* queue is eventually executed, exactly once; it leaves the queue only by
\* being started.
C8_AppendedRunsOnce ==
    /\ [](\A k \in Keys : NoDuplicates(startLog[k]) /\ appendLog[k] = startLog[k] \o Queued(k))
    /\ \A t \in 1..MaxThunks : (t \in Appended) ~> (t \in Started)

\* a thunk waited in the queue while later calls, debounced and not, were made on its key, and then ran
C8_Witness ==
    \E k \in Keys : \E i \in 1..Len(startLog[k]) : \E u, v \in DOMAIN calls :
        /\ i >= 2
        /\ startLog[k][i] < u
        /\ startLog[k][i] < v
        /\ calls[u].key = k /\ calls[u].deb
        /\ calls[v].key = k /\ ~calls[v].deb

\* what the queue holds for one key: its queue, its running flag, its
\* debounce_tasks entry, its pending callbacks and the thunks it has taken and started
KeyView(s, k) ==
    [declared |-> k \in DOMAIN s.task_queues,
     queue |-> IF k \in DOMAIN s.task_queues THEN s.task_queues[k] ELSE <<>>,
     running |-> IF k \in DOMAIN s.running_tasks THEN s.running_tasks[k] ELSE FALSE,
     debounce |-> IF k \in DOMAIN s.debounce_tasks THEN s.debounce_tasks[k] ELSE 0,
     timers |-> {t \in s.timers : t.key = k},
     appended |-> s.appendLog[k],
     started |-> s.startLog[k]]

\* C28: enqueue_task, a timer firing, process_queue and finish_task for one key
\* leave what the queue holds for every other key as it is: its queue, its
\* running flag, its debounce_tasks entry and its pending callbacks.
C28_KeysAreIndependent ==
    \A a, b \in Keys : a # b =>
        /\ KeyView(enqueue_task(TQ, a, nextThunk, FALSE, 0), b) = KeyView(TQ, b)
        /\ root # None => \A d \in Delays : KeyView(enqueue_task(TQ, a, nextThunk, TRUE, d), b) = KeyView(TQ, b)
        /\ a \in DOMAIN task_queues => KeyView(process_queue(TQ, a), b) = KeyView(TQ, b)
        /\ a \in DOMAIN task_queues => KeyView(finish_task(TQ, a), b) = KeyView(TQ, b)
        /\ \A t \in timers : t.key = a => KeyView(timer_callback(TQ, t), b) = KeyView(TQ, b)

\* a thunk of one key, enqueued from the event loop, is executing while another
\* key is in its settle delay with its flag set and a thunk waiting
C28_Witness ==
    \E a, b \in Keys :
        /\ a # b
        /\ stack # <<>>
        /\ stack[Len(stack)].key = b
        /\ calls[stack[Len(stack)].thunk].by = 0
        /\ Executing(a) = {}
        /\ a \in DOMAIN running_tasks
        /\ running_tasks[a]
        /\ \E t \in timers : t.kind = "finish" /\ t.key = a /\ t.left > 0
        /\ \A i \in 1..Len(startLog[a]) : calls[startLog[a][i]].by = 0
        /\ Queued(a) # <<>>

\* C29: enqueue_task(key, thunk, debounce=False) appends the thunk at once. When
\* the key is not running and its queue is empty the thunk is started inside
\* the call; when the key is running the thunk stays in the queue and the
\* call starts nothing. While a key's flag is set, a thunk of the key is
\* started by finish_task only: by the key's finish callback, or, without a
\* root, when the executing thunk of the key returns.
C29_ImmediateEnqueue ==
    [][/\ nextThunk' = nextThunk + 1 /\ ~calls'[nextThunk].deb =>
            LET k == calls'[nextThunk].key
            IN /\ appendLog'[k] = Append(appendLog[k], nextThunk)
               /\ KeyView(TQ, k).running =>
                    /\ task_queues'[k] = Append(task_queues[k], nextThunk)
                    /\ stack' = stack
                    /\ startLog'[k] = startLog[k]
               /\ ~KeyView(TQ, k).running /\ KeyView(TQ, k).queue = <<>> =>
                    /\ task_queues'[k] = <<>>
                    /\ running_tasks'[k]
                    /\ stack' = Append(stack, [key |-> k, thunk |-> nextThunk])
                    /\ startLog'[k] = Append(startLog[k], nextThunk)
       /\ \A k \in Keys : KeyView(TQ, k).running /\ startLog'[k] # startLog[k] =>
            \/ \E t \in timers \ timers' : t.kind = "finish" /\ t.key = k /\ t.left = 0
            \/ root = None /\ stack # <<>> /\ stack[Len(stack)].key = k /\ Len(stack') = Len(stack)]_vars

\* a thunk enqueued without debounce on a running key waited in the queue and
\* was started when the key's finish callback ran
C29_Witness ==
    \E k \in Keys : \E i \in 1..Len(startLog[k]) :
        /\ i >= 2
        /\ ~calls[startLog[k][i]].deb
        /\ calls[startLog[k][i]].by = 0
        /\ startGap[k].rooted
        /\ startGap[k].gap >= SettleDelay
        /\ stack # <<>>
        /\ stack[Len(stack)].thunk = startLog[k][i]

---------------------------------------------------------------------------
(* FiniteStateMachine *)

\* the state names a machine is built from
StateNames == {"A", "B"}

\* the transitions argument of add_state: lists without repetition
TransitionLists == {<<>>, <<"A">>, <<"B">>, <<"A", "B">>, <<"B", "A">>}

\* the action argument of add_state: None, a callable that returns, or a
\* callable that calls change_state(to) on the machine before it returns
NoAction == [kind |-> "None", to |-> None]

EntryActions == {NoAction, [kind |-> "returns", to |-> None]} \cup {[kind |-> "cascades", to |-> n] : n \in StateNames}

\* the machine's fields and the record of the actions invoked, as one value
FSM == [current_state |-> current_state, previous_state |-> previous_state, transitions |-> transitions, state_actions |-> state_actions, invoked |-> <<>>]

\* self.transitions.get(state, [])
transitions_get(m, state) == IF state \in DOMAIN m.transitions THEN m.transitions[state] ELSE <<>>

\* self.state_actions.get(state)
state_actions_get(m, state) == IF state \in DOMAIN m.state_actions THEN m.state_actions[state] ELSE NoAction

add_state(m, state, trans, action) == [m EXCEPT !.transitions = Put(@, state, trans), !.state_actions = Put(@, state, action)]

\* a bug: the name is accepted whether it was declared or not
set_state_raises_never(m, state) == FALSE

\* if state not in self.transitions: raise ValueError
set_state_raises(m, state) == state \notin DOMAIN m.transitions

\* a bug: set_state records the state it leaves, as a transition does
set_state_as_transition(m, state) == [m EXCEPT !.current_state = state, !.previous_state = m.current_state]

\* set_state past its check of the name
set_state(m, state) == [m EXCEPT !.current_state = state]

\* add_transition past its check of from_state
add_transition(m, from_state, to_state) == [m EXCEPT !.transitions[from_state] = Append(@, to_state)]

\* a bug: the previous state is not recorded
enter_state_forgets(m, new_state) == [m EXCEPT !.current_state = new_state]

\* the new state is set and the previous one recorded, before the action runs
enter_state(m, new_state) == [m EXCEPT !.current_state = new_state, !.previous_state = m.current_state]

\* a bug: every target is let through
permitted_always(m, new_state) == TRUE

\* a bug: a call made by an entry action is checked against the state the machine was in before
permitted_from_previous(m, new_state) == new_state \in SeqSet(transitions_get(m, IF m.invoked # <<>> THEN m.previous_state ELSE m.current_state))

\* what change_state hands back: both branches fall off the end of the function
change_state_result(m, new_state) == IF new_state \in SeqSet(transitions_get(m, m.current_state)) THEN None ELSE None

\* whether change_state goes past its check
permitted(m, new_state) == new_state \in SeqSet(transitions_get(m, m.current_state))

RECURSIVE change_state(_, _)
change_state(m, new_state) ==
    IF ~permitted(m, new_state)
    THEN m
    ELSE LET m1 == enter_state(m, new_state)
             action == state_actions_get(m1, new_state)
             m2 == [m1 EXCEPT !.invoked = Append(@, [action_of |-> new_state, new |-> new_state, prev |-> m.current_state, get_state |-> m1.current_state, get_previous_state |-> m1.previous_state])]
         IN IF action.kind = "None" THEN m1
            ELSE IF action.kind = "cascades" THEN change_state(m2, action.to)
            ELSE m2

\* the state an entry action's own change_state calls lead to from a state, if any
RECURSIVE CascadeEnds(_, _, _)
CascadeEnds(acts, state, fuel) ==
    IF state \notin DOMAIN acts \/ acts[state].kind # "cascades" THEN TRUE
    ELSE IF fuel = 0 THEN FALSE
    ELSE CascadeEnds(acts, acts[state].to, fuel - 1)

\* no entry action starts an endless chain of change_state calls
Terminating(acts) == \A n \in DOMAIN acts : CascadeEnds(acts, n, Cardinality(StateNames))

SetFSM(m) ==
    /\ current_state' = m.current_state
    /\ previous_state' = m.previous_state
    /\ transitions' = m.transitions
    /\ state_actions' = m.state_actions
    /\ fsm_invoked' = m.invoked

FsmCall(op, arg, ok, result) == [op |-> op, arg |-> arg, from |-> current_state, prev |-> previous_state, ok |-> ok, result |-> result]

\* FiniteStateMachine(initial_state)
InitFSM ==
    /\ current_state \in StateNames \cup {None}
    /\ previous_state = None
    /\ transitions = <<>>
    /\ state_actions = <<>>
    /\ fsm_call = NoFsmCall
    /\ fsm_invoked = <<>>

AddState(state, trans, action) ==
    /\ Terminating(Put(state_actions, state, action))
    /\ SetFSM(add_state(FSM, state, trans, action))
    /\ fsm_call' = FsmCall("add_state", state, TRUE, None)
    /\ UNCHANGED <<tqvars, dmvars, appvars>>

SetState(state) ==
    /\ ~set_state_raises(FSM, state)
    /\ SetFSM(set_state(FSM, state))
    /\ fsm_call' = FsmCall("set_state", state, TRUE, None)
    /\ UNCHANGED <<tqvars, dmvars, appvars>>

\* set_state of a name that was not declared raises ValueError
SetStateUndeclared(state) ==
    /\ set_state_raises(FSM, state)
    /\ SetFSM(FSM)
    /\ fsm_call' = FsmCall("set_state", state, FALSE, "ValueError")
    /\ UNCHANGED <<tqvars, dmvars, appvars>>

AddTransition(from_state, to_state) ==
    /\ from_state \in DOMAIN transitions
    /\ to_state \notin SeqSet(transitions[from_state])
    /\ SetFSM(add_transition(FSM, from_state, to_state))
    /\ fsm_call' = FsmCall("add_transition", from_state, TRUE, None)
    /\ UNCHANGED <<tqvars, dmvars, appvars>>

\* add_transition from a name that was not declared raises ValueError
AddTransitionUndeclared(from_state, to_state) ==
    /\ from_state \notin DOMAIN transitions
    /\ SetFSM(FSM)
    /\ fsm_call' = FsmCall("add_transition", from_state, FALSE, "ValueError")
    /\ UNCHANGED <<tqvars, dmvars, appvars>>

\* change_state returns None, whether it went past its check or not
ChangeState(new_state) ==
    /\ SetFSM(change_state(FSM, new_state))
    /\ fsm_call' = FsmCall("change_state", new_state, new_state \in SeqSet(transitions_get(FSM, current_state)), change_state_result(FSM, new_state))
    /\ UNCHANGED <<tqvars, dmvars, appvars>>

NextFSM ==
    \/ \E n \in StateNames, l \in TransitionLists, a \in EntryActions : AddState(n, l, a)
    \/ \E n \in StateNames : SetState(n)
    \/ \E n \in StateNames : SetStateUndeclared(n)
    \/ \E n, t \in StateNames : AddTransition(n, t)
    \/ \E n, t \in StateNames : AddTransitionUndeclared(n, t)
    \/ \E n \in StateNames : ChangeState(n)

\* the machine on its own: the queue and the manager are constructed and not used
InitMachine == InitFSM /\ InitTQ /\ IdleDM /\ IdleApp

SpecFSM == InitMachine /\ [][NextFSM]_vars

---------------------------------------------------------------------------
(* FiniteStateMachine properties *)

\* C3: change_state to a target the current state does not permit leaves the
\* current and the previous state as they were and invokes no entry action.
C3_RejectedLeavesState ==
    fsm_call.op = "change_state" /\ ~fsm_call.ok =>
        /\ current_state = fsm_call.from
        /\ previous_state = fsm_call.prev
        /\ fsm_invoked = <<>>

\* a target with an entry action was rejected in a declared state that has a previous state
C3_Witness ==
    /\ fsm_call.op = "change_state"
    /\ ~fsm_call.ok
    /\ fsm_call.from \in DOMAIN transitions
    /\ fsm_call.prev # None
    /\ state_actions_get(FSM, fsm_call.arg).kind # "None"

\* C4: after a successful change_state(T) made in S the current state is T, the
\* previous state is S, and T's entry action, if there is one, was invoked
\* exactly once with (T, S).
C4_SuccessSetsStates ==
    fsm_call.op = "change_state" /\ fsm_call.ok =>
        /\ current_state = fsm_call.arg
        /\ previous_state = fsm_call.from
        /\ state_actions_get(FSM, fsm_call.arg).kind = "None" => fsm_invoked = <<>>
        /\ state_actions_get(FSM, fsm_call.arg).kind # "None" => Len(fsm_invoked) = 1 /\ fsm_invoked[1].new = fsm_call.arg /\ fsm_invoked[1].prev = fsm_call.from

\* C4 as amended: in a successful change_state(T) made in S, T's entry action,
\* if there is one, is invoked first, with (T, S), when the current state is
\* already T and the previous state S; with no entry action nothing is invoked;
\* and unless that action itself calls change_state on the machine it is the
\* only invocation and the call returns with current state T and previous S.
C4_SuccessSetsStatesBeforeAction ==
    fsm_call.op = "change_state" /\ fsm_call.ok =>
        /\ state_actions_get(FSM, fsm_call.arg).kind = "None" => fsm_invoked = <<>>
        /\ state_actions_get(FSM, fsm_call.arg).kind # "None" =>
            /\ Len(fsm_invoked) >= 1
            /\ fsm_invoked[1] = [action_of |-> fsm_call.arg, new |-> fsm_call.arg, prev |-> fsm_call.from, get_state |-> fsm_call.arg, get_previous_state |-> fsm_call.from]
        /\ state_actions_get(FSM, fsm_call.arg).kind # "cascades" =>
            /\ current_state = fsm_call.arg
            /\ previous_state = fsm_call.from
            /\ Len(fsm_invoked) <= 1

\* a successful change_state between two different states whose entry action returned
C4_Witness ==
    /\ fsm_call.op = "change_state"
    /\ fsm_call.ok
    /\ fsm_call.from # fsm_call.arg
    /\ fsm_call.from \in StateNames
    /\ Len(fsm_invoked) = 1
    /\ state_actions_get(FSM, fsm_call.arg).kind = "returns"

\* C11: when the entry action run by a successful change_state(T) made in S calls
\* change_state(U) on the machine, that call is checked against T, not S: if T
\* permits U the action of U sees current U and previous T, and the outer call
\* returns with current U and previous T unless U's action moves the machine
\* again; if T does not permit U the machine stays at T with previous S.
C11_NestedSeesUpdatedState ==
    fsm_call.op = "change_state" /\ fsm_call.ok /\ state_actions_get(FSM, fsm_call.arg).kind = "cascades" =>
        LET T == fsm_call.arg
            S == fsm_call.from
            U == state_actions_get(FSM, fsm_call.arg).to
        IN IF U \in SeqSet(transitions_get(FSM, T))
           THEN /\ state_actions_get(FSM, U).kind # "cascades" => current_state = U /\ previous_state = T
                /\ state_actions_get(FSM, U).kind = "None" => Len(fsm_invoked) = 1
                /\ state_actions_get(FSM, U).kind # "None" =>
                    /\ Len(fsm_invoked) >= 2
                    /\ fsm_invoked[2] = [action_of |-> U, new |-> U, prev |-> T, get_state |-> U, get_previous_state |-> T]
           ELSE current_state = T /\ previous_state = S /\ Len(fsm_invoked) = 1

\* an entry action's change_state(U) went through from T although the state the
\* outer call was made in does not permit U
C11_Witness ==
    /\ fsm_call.op = "change_state"
    /\ fsm_call.ok
    /\ state_actions_get(FSM, fsm_call.arg).kind = "cascades"
    /\ fsm_call.from \in DOMAIN transitions
    /\ fsm_call.from # fsm_call.arg
    /\ state_actions_get(FSM, fsm_call.arg).to \notin SeqSet(transitions_get(FSM, fsm_call.from))
    /\ current_state = state_actions_get(FSM, fsm_call.arg).to
    /\ previous_state = fsm_call.arg
    /\ Len(fsm_invoked) = 2

\* C20: a rejected change_state hands its caller a result that differs from the
\* result of a change_state that went through.
C20_RejectedReportsFailure ==
    fsm_call.op = "change_state" /\ ~fsm_call.ok =>
        \A n \in SeqSet(transitions_get(FSM, current_state)) : fsm_call.result # change_state_result(FSM, n)

\* C21: set_state(name) for a declared name changes the current state and
\* nothing else: the previous state, the table and the actions stay as they
\* were, and no entry action is invoked.
C21_SetStateOnlySetsCurrent ==
    [][fsm_call'.op = "set_state" /\ fsm_call'.ok =>
        /\ current_state' = fsm_call'.arg
        /\ previous_state' = previous_state
        /\ transitions' = transitions
        /\ state_actions' = state_actions
        /\ fsm_invoked' = <<>>]_vars

\* set_state moved a machine that never made a transition to another state that has an entry action
C21_Witness ==
    /\ fsm_call.op = "set_state"
    /\ fsm_call.ok
    /\ fsm_call.from # fsm_call.arg
    /\ fsm_call.from \in StateNames
    /\ current_state = fsm_call.arg
    /\ previous_state = None
    /\ state_actions_get(FSM, fsm_call.arg).kind # "None"
    /\ fsm_invoked = <<>>

\* C22: set_state(name) for a name no add_state declared raises ValueError and
\* leaves the current and the previous state as they were.
C22_SetStateUndeclaredFails ==
    fsm_call.op = "set_state" /\ fsm_call.arg \notin DOMAIN transitions =>
        /\ ~fsm_call.ok
        /\ fsm_call.result = "ValueError"
        /\ current_state = fsm_call.from
        /\ previous_state = fsm_call.prev

\* set_state of an undeclared name was refused on a machine that has made a transition
C22_Witness ==
    /\ fsm_call.op = "set_state"
    /\ fsm_call.arg \notin DOMAIN transitions
    /\ fsm_call.result = "ValueError"
    /\ current_state \in DOMAIN transitions
    /\ previous_state # None
    /\ current_state # fsm_call.arg

\* C23: add_state on a machine that has made a transition, and add_state with
\* a target that is not declared, are refused.
C23_LateOrDanglingDefinitionFails ==
    fsm_call.op = "add_state" =>
        /\ fsm_call.prev # None => ~fsm_call.ok
        /\ (\E t \in SeqSet(transitions_get(FSM, fsm_call.arg)) : t \notin DOMAIN transitions) => ~fsm_call.ok

---------------------------------------------------------------------------
(* DependencyManager *)

FollowUps == {"f1", "f2"}

DepNames == {"a", "b", "c"}

\* invocations of one follow-up in one behaviour
MaxFired == 2

\* the manager's dict and the record of the follow-ups invoked, as one value
DM == [states |-> dependency_states, invoked |-> <<>>]

\* the position of a follow-up's entry in the dict, 0 when it has none
IndexOf(states, func) == IF \E i \in 1..Len(states) : states[i].func = func THEN CHOOSE i \in 1..Len(states) : states[i].func = func ELSE 0

\* a bug: a follow-up registered again keeps the names it had completed
add_dependencies_keeps_completed(d, func, deps) ==
    IF IndexOf(d.states, func) = 0
    THEN [d EXCEPT !.states = Append(@, [func |-> func, dependencies |-> deps, completed |-> {}])]
    ELSE [d EXCEPT !.states[IndexOf(d.states, func)].dependencies = deps]

\* dependency_states[follow_up_func] = {...}: a new key goes last, a known key keeps its place
add_dependencies(d, func, deps) ==
    LET entry == [func |-> func, dependencies |-> deps, completed |-> {}]
    IN IF IndexOf(d.states, func) = 0
       THEN [d EXCEPT !.states = Append(@, entry)]
       ELSE [d EXCEPT !.states[IndexOf(d.states, func)] = entry]

\* state['dependencies'] == state['completed']
all_completed(st) == st.dependencies = st.completed

\* a bug: the completed set is kept
follow_up_returned_keeps(st) == st

\* follow_up_func() has returned: the completed set is cleared
follow_up_returned(st) == [st EXCEPT !.completed = {}]

\* a bug: the name is added to every follow-up's completed set
mark_entry_any(d, func_name, i) ==
    LET st == [d.states[i] EXCEPT !.completed = @ \cup {func_name}]
    IN IF all_completed(st)
       THEN [d EXCEPT !.states[i] = follow_up_returned(st), !.invoked = Append(@, st.func)]
       ELSE [d EXCEPT !.states[i] = st]

\* the body of mark_complete's loop for the entry at position i
mark_entry(d, func_name, i) ==
    IF func_name \in d.states[i].dependencies
    THEN LET st == [d.states[i] EXCEPT !.completed = @ \cup {func_name}]
         IN IF all_completed(st)
            THEN [d EXCEPT !.states[i] = follow_up_returned(st), !.invoked = Append(@, st.func)]
            ELSE [d EXCEPT !.states[i] = st]
    ELSE d

\* a bug: the loop ends with the first follow-up it invokes
RECURSIVE mark_from_until_fired(_, _, _)
mark_from_until_fired(d, func_name, i) ==
    IF i > Len(d.states) \/ d.invoked # <<>> THEN d ELSE mark_from_until_fired(mark_entry(d, func_name, i), func_name, i + 1)

RECURSIVE mark_from(_, _, _)
mark_from(d, func_name, i) == IF i > Len(d.states) THEN d ELSE mark_from(mark_entry(d, func_name, i), func_name, i + 1)

mark_complete(d, func_name) == mark_from(d, func_name, 1)

Count(q, x) == Cardinality({i \in 1..Len(q) : q[i] = x})

\* the follow-ups whose cycle the name completes
Due(func_name) == {f \in DOMAIN dm_cycle : func_name \in dm_cycle[f].required /\ dm_cycle[f].marked \cup {func_name} = dm_cycle[f].required}

CycleAfter(c, func_name) ==
    IF func_name \notin c.required THEN c
    ELSE IF c.marked \cup {func_name} = c.required THEN [c EXCEPT !.marked = {}]
    ELSE [c EXCEPT !.marked = @ \cup {func_name}]

Fired(f) == IF f \in DOMAIN dm_fired THEN dm_fired[f] ELSE 0

InitDM == IdleDM

AddDependencies(func, deps) ==
    /\ dependency_states' = add_dependencies(DM, func, deps).states
    /\ dm_invoked' = <<>>
    /\ dm_cycle' = Put(dm_cycle, func, [required |-> deps, marked |-> {}])
    /\ dm_call' = [op |-> "add_dependencies", arg |-> func, due |-> {}, known |-> IndexOf(dependency_states, func) # 0,
                    dropped |-> IF IndexOf(dependency_states, func) # 0 THEN dependency_states[IndexOf(dependency_states, func)].completed ELSE {}]
    /\ UNCHANGED <<dm_fired, tqvars, fsmvars, appvars>>

MarkComplete(func_name) ==
    /\ \A f \in FollowUps : Fired(f) < MaxFired
    /\ dependency_states' = mark_complete(DM, func_name).states
    /\ dm_invoked' = mark_complete(DM, func_name).invoked
    /\ dm_cycle' = [f \in DOMAIN dm_cycle |-> CycleAfter(dm_cycle[f], func_name)]
    /\ dm_call' = [op |-> "mark_complete", arg |-> func_name, due |-> Due(func_name), known |-> \E i \in 1..Len(dependency_states) : func_name \in dependency_states[i].dependencies, dropped |-> {}]
    /\ dm_fired' = [f \in DOMAIN dm_fired \cup SeqSet(dm_invoked') |-> Fired(f) + Count(dm_invoked', f)]
    /\ UNCHANGED <<tqvars, fsmvars, appvars>>

NextDM ==
    \/ \E f \in FollowUps, r \in SUBSET DepNames : AddDependencies(f, r)
    \/ \E n \in DepNames : MarkComplete(n)

\* the manager on its own: the queue and the machine are constructed and not used
InitManager == InitDM /\ InitTQ /\ IdleFSM /\ IdleApp

SpecDM == InitManager /\ [][NextDM]_vars

\* the depth of nested follow-up calls at which the interpreter raises RecursionError
RecursionLimit == 3

\* the manager during a mark_complete whose follow-up body.func calls
\* mark_complete(body.name) from its own body: every time it is invoked, or
\* the first time only
Reentered(func, name, always) ==
    [states |-> dependency_states, invoked |-> <<>>, raised |-> FALSE, depth |-> 0, entered |-> 0,
     body |-> [func |-> func, name |-> name, always |-> always]]

RECURSIVE mark_reentered(_, _, _)
RECURSIVE follow_up_func(_, _)

\* mark_complete's loop from the entry at position i, the follow-ups' bodies run
\* where the loop calls them; an exception leaves the loop and every frame above it
mark_reentered(d, func_name, i) ==
    IF d.raised \/ i > Len(d.states) THEN d
    ELSE IF func_name \notin d.states[i].dependencies THEN mark_reentered(d, func_name, i + 1)
    ELSE LET st == [d.states[i] EXCEPT !.completed = @ \cup {func_name}]
             d1 == [d EXCEPT !.states[i] = st]
         IN IF ~all_completed(st) THEN mark_reentered(d1, func_name, i + 1)
            ELSE LET d2 == follow_up_func(d1, st.func)
                 IN IF d2.raised THEN d2
                    ELSE mark_reentered([d2 EXCEPT !.states[i] = follow_up_returned(@)], func_name, i + 1)

\* follow_up_func(): the body of the re-entering follow-up calls mark_complete
\* again before it returns, the other follow-ups return at once
follow_up_func(d, func) ==
    IF func # d.body.func \/ (~d.body.always /\ d.entered >= 1) THEN [d EXCEPT !.invoked = Append(@, func)]
    ELSE IF d.depth >= RecursionLimit THEN [d EXCEPT !.raised = TRUE]
    ELSE LET d1 == mark_reentered([d EXCEPT !.invoked = Append(@, func), !.depth = @ + 1, !.entered = @ + 1], d.body.name, 1)
         IN [d1 EXCEPT !.depth = d.depth]

\* mark_complete(func_name) while the follow-up func is one that calls
\* mark_complete(name), name being one of its own required names
MarkCompleteReentered(func_name, func, name, always) ==
    /\ \A f \in FollowUps : Fired(f) < MaxFired
    /\ IndexOf(dependency_states, func) # 0
    /\ name \in dependency_states[IndexOf(dependency_states, func)].dependencies
    /\ dependency_states' = mark_reentered(Reentered(func, name, always), func_name, 1).states
    /\ dm_invoked' = mark_reentered(Reentered(func, name, always), func_name, 1).invoked
    /\ dm_cycle' = [f \in DOMAIN dm_cycle |->
                        [required |-> dependency_states'[IndexOf(dependency_states, f)].dependencies,
                         marked |-> dependency_states'[IndexOf(dependency_states, f)].completed]]
    /\ dm_call' = [op |-> "reentered", arg |-> func_name, due |-> Due(func_name), known |-> TRUE, dropped |-> {},
                    func |-> func, always |-> always, raised |-> mark_reentered(Reentered(func, name, always), func_name, 1).raised]
    /\ dm_fired' = [f \in DOMAIN dm_fired \cup SeqSet(dm_invoked') |-> Fired(f) + Count(dm_invoked', f)]
    /\ UNCHANGED <<tqvars, fsmvars, appvars>>

NextReentrant ==
    \/ \E f \in FollowUps, r \in SUBSET DepNames : AddDependencies(f, r)
    \/ \E n \in DepNames : MarkComplete(n)
    \/ \E n, m \in DepNames, f \in FollowUps, always \in BOOLEAN : MarkCompleteReentered(n, f, m, always)

\* the manager with follow-ups that call back into it
SpecReentrant == InitManager /\ [][NextReentrant]_vars

---------------------------------------------------------------------------
(* DependencyManager properties *)

\* C10: a follow-up is invoked exactly once by the mark_complete call that
\* completes its required set (every required name marked since registration
\* or since its previous firing, repeated marks counting once), and is not
\* invoked by any other call; a fresh full cycle fires it again.
C10_FiresOncePerCycle ==
    dm_call.op = "mark_complete" =>
        \A f \in FollowUps : Count(dm_invoked, f) = IF f \in dm_call.due THEN 1 ELSE 0

\* a follow-up with two or more required names fires for the second time
C10_Witness ==
    /\ dm_call.op = "mark_complete"
    /\ \E f \in dm_call.due :
        /\ Cardinality(dm_cycle[f].required) >= 2
        /\ Fired(f) = 2
        /\ Count(dm_invoked, f) = 1


\* C24: add_dependencies for a follow-up that is registered already puts the
\* new required set in place of the old one and empties its completed set, so
\* at any time a follow-up's completed set holds exactly the required names
\* marked since its last registration or firing.
C24_ReregistrationResets ==
    /\ dm_call.op = "add_dependencies" =>
            /\ Cardinality({i \in 1..Len(dependency_states) : dependency_states[i].func = dm_call.arg}) = 1
            /\ dependency_states[IndexOf(dependency_states, dm_call.arg)].completed = {}
    /\ \A i \in 1..Len(dependency_states) :
            /\ dependency_states[i].dependencies = dm_cycle[dependency_states[i].func].required
            /\ dependency_states[i].completed = dm_cycle[dependency_states[i].func].marked

\* a follow-up was registered again while it had completed names, all of them in its new required set
C24_Witness ==
    /\ dm_call.op = "add_dependencies"
    /\ dm_call.known
    /\ dm_call.dropped # {}
    /\ dm_call.dropped \subseteq dependency_states[IndexOf(dependency_states, dm_call.arg)].dependencies
    /\ dependency_states[IndexOf(dependency_states, dm_call.arg)].completed = {}

\* C25: mark_complete(name) for a name in no registered required set invokes
\* no follow-up and leaves every follow-up's required and completed set as it was.
C25_UnknownNameIsNoOp ==
    [][dm_call'.op = "mark_complete" /\ (\A i \in 1..Len(dependency_states) : dm_call'.arg \notin dependency_states[i].dependencies) =>
        /\ dependency_states' = dependency_states
        /\ dm_invoked' = <<>>]_vars

\* a name nobody requires was marked while a follow-up was one name short of firing
C25_Witness ==
    /\ dm_call.op = "mark_complete"
    /\ ~dm_call.known
    /\ dm_invoked = <<>>
    /\ \E i \in 1..Len(dependency_states) :
        /\ dependency_states[i].completed # {}
        /\ Cardinality(dependency_states[i].dependencies \ dependency_states[i].completed) = 1

\* C30: one mark_complete(name) adds the name to the completed set of every
\* follow-up that requires it; each of these is invoked, once, exactly when its
\* own completed set then equals its own required set (and its completed set
\* is then emptied), whatever the other follow-ups do; a follow-up that does
\* not require the name is left alone.
C30_EachFollowUpOnItsOwn ==
    [][dm_call'.op = "mark_complete" =>
        /\ Len(dependency_states') = Len(dependency_states)
        /\ \A i \in 1..Len(dependency_states) :
            LET st == dependency_states[i]
                now == dependency_states'[i]
            IN /\ now.func = st.func
               /\ now.dependencies = st.dependencies
               /\ IF dm_call'.arg \notin st.dependencies
                  THEN now.completed = st.completed /\ Count(dm_invoked', st.func) = 0
                  ELSE IF st.completed \cup {dm_call'.arg} = st.dependencies
                  THEN now.completed = {} /\ Count(dm_invoked', st.func) = 1
                  ELSE now.completed = st.completed \cup {dm_call'.arg} /\ Count(dm_invoked', st.func) = 0]_vars

\* one mark_complete fired the follow-up registered first and only added the
\* name to the completed set of the one registered after it
C30_Witness ==
    /\ dm_call.op = "mark_complete"
    /\ Len(dependency_states) = 2
    /\ dm_invoked = <<dependency_states[1].func>>
    /\ dm_call.arg \in dependency_states[1].dependencies
    /\ dm_call.arg \in dependency_states[2].dependencies
    /\ dm_call.arg \in dependency_states[2].completed
    /\ dependency_states[2].completed # dependency_states[2].dependencies

\* C31: between calls, every follow-up's completed set is a proper subset of
\* its required set: contained in it and never left equal to it.
C31_CompletedProperSubset ==
    \A i \in 1..Len(dependency_states) :
        /\ dependency_states[i].completed \subseteq dependency_states[i].dependencies
        /\ dependency_states[i].completed # dependency_states[i].dependencies

\* C32: a follow-up that, while mark_complete invokes it, calls mark_complete
\* with one of its own required names is not invoked a second time by that
\* outer call, and the outer call returns.
C32_ReentrantFollowUpRunsOnce ==
    dm_call.op = "reentered" /\ Count(dm_invoked, dm_call.func) >= 1 =>
        /\ Count(dm_invoked, dm_call.func) = 1
        /\ ~dm_call.raised

---------------------------------------------------------------------------
(* App: the coordinator of the machines, the queue and the platform window *)

\* external inputs (notifications, key presses, commands, window-manager changes) in one behaviour
MaxEvents == 2

\* inputs in one behaviour of the window scenarios
MaxWindowInputs == 4

\* inputs in one behaviour of the menu toggle scenarios
MaxToggleInputs == 5

\* inputs in one behaviour of the resize storm scenarios
MaxStormInputs == 6

\* DEFAULT_TASK_DELAY_MS = 100, in ticks
DEFAULT_TASK_DELAY == 20

\* DEFAULT_TASK_DELAY_MS + 100 of the maximized and fullscreen entry actions, in ticks
RecomputeDelay == 40

\* the time between two notifications of a storm, in ticks (10 ms)
EventGaps == {2}

\* the sizes the window can have in its normal state; w0 is the unmapped window's 1x1
Sizes == {"w1", "w2"}

\* the size of the zoomed and of the fullscreen window
Screen == "w3"

RootStates == {"normal", "iconic", "zoomed"}

\* the decorated handlers: the key of a task is its function's name
Handlers == <<"on_minimize_event_handler", "on_restore_event_handler", "on_maximize_event_handler", "on_fullscreen_event_handler", "on_cursor_enter_event_handler", "on_cursor_leave_event_handler">>

AppKeys == SeqSet(Handlers)

\* the thunk lambda: func(*args, **kwargs) of a handler; no handler reads its event
ThunkOf(handler) == CHOOSE i \in 1..Len(Handlers) : Handlers[i] = handler

\* a bound method given to add_state as the entry action
Method(name) == [kind |-> name, to |-> None]

\* a bug: minimized also permits maximized
window_fsm_declared_direct ==
    LET m1 == add_state(Machine("__init__"), "__init__", <<"restored", "resized", "maximized", "minimized", "fullscreen">>, Method("on_normal_state"))
        m2 == add_state(m1, "restored", <<"resized", "maximized", "minimized", "fullscreen">>, Method("on_normal_state"))
        m3 == add_state(m2, "resized", <<"restored", "maximized", "minimized", "fullscreen">>, Method("on_normal_state"))
        m4 == add_state(m3, "maximized", <<"restored", "fullscreen">>, Method("on_maximized_state"))
        m5 == add_state(m4, "minimized", <<"restored", "maximized">>, Method("on_minimized_state"))
    IN add_state(m5, "fullscreen", <<"restored", "maximized">>, Method("on_fullscreen_state"))

\* window_fsm after the add_state calls of App.__init__
window_fsm_declared ==
    LET m1 == add_state(Machine("__init__"), "__init__", <<"restored", "resized", "maximized", "minimized", "fullscreen">>, Method("on_normal_state"))
        m2 == add_state(m1, "restored", <<"resized", "maximized", "minimized", "fullscreen">>, Method("on_normal_state"))
        m3 == add_state(m2, "resized", <<"restored", "maximized", "minimized", "fullscreen">>, Method("on_normal_state"))
        m4 == add_state(m3, "maximized", <<"restored", "fullscreen">>, Method("on_maximized_state"))
        m5 == add_state(m4, "minimized", <<"restored">>, Method("on_minimized_state"))
    IN add_state(m5, "fullscreen", <<"restored", "maximized">>, Method("on_fullscreen_state"))

\* page_fsm after the add_state calls of App.__init__
page_fsm_declared ==
    LET m1 == add_state(Machine("__init__"), "__init__", <<"home", "img", "img_error", "dirs_files">>, NoAction)
        m2 == add_state(m1, "home", <<"img", "img_error", "dirs_files">>, Method("on_home_page_state"))
        m3 == add_state(m2, "img", <<"home", "img_error", "dirs_files">>, Method("on_img_page_state"))
        m4 == add_state(m3, "img_error", <<"home", "img", "dirs_files">>, Method("on_img_error_page_state"))
    IN add_state(m4, "dirs_files", <<"home", "img", "img_error">>, Method("on_dirs_files_page_state"))

\* cursor_fsm after the add_state calls of App.__init__
cursor_fsm_declared ==
    LET m1 == add_state(Machine("__init__"), "__init__", <<"enter", "leave">>, NoAction)
        m2 == add_state(m1, "enter", <<"leave">>, Method("on_cursor_enter_state"))
    IN add_state(m2, "leave", <<"enter">>, Method("on_cursor_leave_state"))

\* a bug: shown also permits __init__
menu_status_fsm_declared_reset ==
    LET m1 == add_state(Machine("__init__"), "__init__", <<"hidden", "shown">>, NoAction)
        m2 == add_state(m1, "hidden", <<"shown">>, Method("on_menu_status_hidden_state"))
    IN add_state(m2, "shown", <<"hidden", "__init__">>, Method("on_menu_status_shown_state"))

\* menu_status_fsm after the add_state calls of App.__init__
menu_status_fsm_declared ==
    LET m1 == add_state(Machine("__init__"), "__init__", <<"hidden", "shown">>, NoAction)
        m2 == add_state(m1, "hidden", <<"shown">>, Method("on_menu_status_hidden_state"))
    IN add_state(m2, "shown", <<"hidden">>, Method("on_menu_status_shown_state"))

\* one thing a callback did: a change_state call, a layout recompute, a page render, an exception that left the callback
Did(what, machine, from, to, ok) == [what |-> what, machine |-> machine, from |-> from, to |-> to, ok |-> ok]

\* what the directory of the selected file holds: n image files, the selected one at position at
OneFile == [n |-> 1, at |-> 0]

\* the App, its queue and the platform window as one value the methods transform;
\* resource, pointer_over, grow, listing and readable are what the platform
\* answers during the callback
App == [tq |-> TQ, window_fsm |-> window_fsm, page_fsm |-> page_fsm, cursor_fsm |-> cursor_fsm, menu_status_fsm |-> menu_status_fsm,
        is_window_fullscreen |-> is_window_fullscreen, root_state |-> root_state, root_size |-> root_size, app_size |-> app_size,
        app_geometry_before_maximized |-> app_geometry_before_maximized, menubar |-> menubar, menu_entries |-> menu_entries,
        status_frame |-> status_frame, buttons |-> buttons, arrows |-> arrows, image |-> image,
        current_image_file_paths |-> current_image_file_paths, current_image_file_idx |-> current_image_file_idx,
        resource |-> TRUE, pointer_over |-> FALSE, grow |-> root_size, listing |-> OneFile, readable |-> TRUE,
        log |-> <<>>, seen |-> <<>>]

\* root.winfo_width() and root.winfo_height()
winfo(w) == IF w.is_window_fullscreen \/ w.root_state = "zoomed" THEN Screen ELSE w.root_size

RECURSIVE fsm_change_state(_, _, _)

hide_menubar(w) == [w EXCEPT !.menubar = "hidden"]

show_menubar(w) == [w EXCEPT !.menubar = "shown"]

on_menu_status_hidden_state(w) ==
    LET w1 == hide_menubar(w)
    IN IF w1.page_fsm.current_state = "img" THEN [w1 EXCEPT !.status_frame = FALSE] ELSE w1

on_menu_status_shown_state(w) ==
    LET w1 == show_menubar(w)
    IN IF w1.page_fsm.current_state = "img" THEN [w1 EXCEPT !.status_frame = TRUE] ELSE w1

\* a bug: entering fullscreen on the img page does not touch the menu machine
handle_menubar_items_on_resize_keeps_menu(w) ==
    LET ws == w.window_fsm.current_state
        w1 == IF ws = "maximized" THEN [w EXCEPT !.menu_entries = [@ EXCEPT !.Maximize = FALSE, !.Fullscreen = TRUE, !.Restore = TRUE]]
              ELSE IF ws = "fullscreen" THEN [w EXCEPT !.menu_entries = [@ EXCEPT !.Maximize = TRUE, !.Fullscreen = FALSE, !.Restore = TRUE]]
              ELSE [w EXCEPT !.menu_entries = [@ EXCEPT !.Maximize = TRUE, !.Fullscreen = TRUE, !.Restore = FALSE]]
    IN IF w1.window_fsm.current_state # "fullscreen" /\ w1.page_fsm.current_state = "img"
       THEN fsm_change_state(w1, "menu_status_fsm", "shown")
       ELSE w1

handle_menubar_items_on_resize(w) ==
    LET ws == w.window_fsm.current_state
        w1 == IF ws = "maximized" THEN [w EXCEPT !.menu_entries = [@ EXCEPT !.Maximize = FALSE, !.Fullscreen = TRUE, !.Restore = TRUE]]
              ELSE IF ws = "fullscreen"
                   THEN LET w0 == [w EXCEPT !.menu_entries = [@ EXCEPT !.Maximize = TRUE, !.Fullscreen = FALSE, !.Restore = TRUE]]
                        IN IF w0.page_fsm.current_state = "img" THEN fsm_change_state(w0, "menu_status_fsm", "hidden") ELSE w0
              ELSE [w EXCEPT !.menu_entries = [@ EXCEPT !.Maximize = TRUE, !.Fullscreen = TRUE, !.Restore = FALSE]]
    IN IF w1.window_fsm.current_state # "fullscreen" /\ w1.page_fsm.current_state = "img"
       THEN fsm_change_state(w1, "menu_status_fsm", "shown")
       ELSE w1

\* the layout recompute; the page item handlers redraw images and keep no state
handle_all_items_on_resize(w) ==
    handle_menubar_items_on_resize([w EXCEPT !.log = Append(@, Did("recompute", None, None, None, TRUE))])

\* self.root.after(DEFAULT_TASK_DELAY_MS + 100, self.handle_all_items_on_resize)
schedule_recompute(w) == [w EXCEPT !.tq = after(w.tq, RecomputeDelay, "recompute", "handle_all_items_on_resize", 0)]

\* a bug: nothing is recomputed when the window comes back to restored or resized
on_normal_state_idle(w) == w

on_normal_state(w) == handle_all_items_on_resize(w)

on_maximized_state(w) == schedule_recompute(handle_all_items_on_resize(w))

on_minimized_state(w) == w

on_fullscreen_state(w) == schedule_recompute(handle_all_items_on_resize(w))

\* Image.open of the bundled picture is not guarded: a missing resource raises out of the loader
load_page_home_items(w) ==
    [w EXCEPT !.log = @ \o (IF w.resource THEN <<Did("render", "page_fsm", None, "home", TRUE)>>
                            ELSE <<Did("render", "page_fsm", None, "home", FALSE), Did("raise", "page_fsm", None, "home", FALSE)>>)]

\* no path, or an exception inside the try block, sends the machine to img_error;
\* a render that works creates the buttons and may resize the window to the image
load_page_img_items(w) ==
    IF w.image = None
    THEN fsm_change_state([w EXCEPT !.log = Append(@, Did("render", "page_fsm", None, "img", FALSE))], "page_fsm", "img_error")
    ELSE IF w.image = "broken"
    THEN fsm_change_state([w EXCEPT !.menu_entries.Close = TRUE, !.log = Append(@, Did("render", "page_fsm", None, "img", FALSE))], "page_fsm", "img_error")
    ELSE [w EXCEPT !.menu_entries.Close = TRUE, !.buttons = TRUE, !.arrows = TRUE, !.root_size = w.grow,
                   !.log = Append(@, Did("render", "page_fsm", None, "img", TRUE))]

load_page_img_error_items(w) == [w EXCEPT !.log = Append(@, Did("render", "page_fsm", None, "img_error", TRUE))]

load_page_dirs_files_items(w) == [w EXCEPT !.log = Append(@, Did("render", "page_fsm", None, "dirs_files", TRUE))]

\* a bug: the browse page was never registered in page_wise_data, and nothing is rendered for it
on_page_state_no_browse(w, page_name) ==
    IF page_name = "home" THEN load_page_home_items(w)
    ELSE IF page_name = "img" THEN load_page_img_items(w)
    ELSE IF page_name = "img_error" THEN load_page_img_error_items(w)
    ELSE w

\* frame.tkraise() and the page's page_item_loader
on_page_state(w, page_name) ==
    IF page_name = "home" THEN load_page_home_items(w)
    ELSE IF page_name = "img" THEN load_page_img_items(w)
    ELSE IF page_name = "img_error" THEN load_page_img_error_items(w)
    ELSE load_page_dirs_files_items(w)

\* a missing button raises KeyError inside the try block, and the except clause passes
show_img_page_arrow_buttons(w) == IF w.buttons THEN [w EXCEPT !.arrows = TRUE] ELSE w

\* a bug: the pointer is read and the buttons stay where they are
hide_img_page_arrow_buttons_never(w) == [w EXCEPT !.log = Append(@, Did("winfo_pointerxy", None, None, None, w.pointer_over))]

\* root.winfo_pointerxy() is compared with the canvas: nothing is hidden while
\* the pointer is over the canvas
hide_img_page_arrow_buttons(w) ==
    LET w1 == [w EXCEPT !.log = Append(@, Did("winfo_pointerxy", None, None, None, w.pointer_over))]
    IN IF w.pointer_over \/ ~w.buttons THEN w1 ELSE [w1 EXCEPT !.arrows = FALSE]

on_cursor_enter_state(w) ==
    IF w.page_fsm.current_state = "img" THEN show_img_page_arrow_buttons(w) ELSE w

on_cursor_leave_state(w) ==
    IF w.page_fsm.current_state = "img" THEN hide_img_page_arrow_buttons(w) ELSE w

\* action(self.current_state, self.previous_state) for the bound methods of the App
state_action(w, action) ==
    CASE action.kind = "on_normal_state" -> on_normal_state(w)
      [] action.kind = "on_maximized_state" -> on_maximized_state(w)
      [] action.kind = "on_minimized_state" -> on_minimized_state(w)
      [] action.kind = "on_fullscreen_state" -> on_fullscreen_state(w)
      [] action.kind = "on_home_page_state" -> on_page_state(w, "home")
      [] action.kind = "on_img_page_state" -> on_page_state(w, "img")
      [] action.kind = "on_img_error_page_state" -> on_page_state(w, "img_error")
      [] action.kind = "on_dirs_files_page_state" -> on_page_state(w, "dirs_files")
      [] action.kind = "on_cursor_enter_state" -> on_cursor_enter_state(w)
      [] action.kind = "on_cursor_leave_state" -> on_cursor_leave_state(w)
      [] action.kind = "on_menu_status_hidden_state" -> on_menu_status_hidden_state(w)
      [] action.kind = "on_menu_status_shown_state" -> on_menu_status_shown_state(w)
      [] OTHER -> w

\* FiniteStateMachine.change_state on one of the App's machines
fsm_change_state(w, machine, new_state) ==
    LET m == w[machine]
    IN IF ~permitted(m, new_state)
       THEN [w EXCEPT !.log = Append(@, Did("change_state", machine, m.current_state, new_state, FALSE))]
       ELSE state_action([w EXCEPT ![machine] = enter_state(m, new_state),
                                   !.log = Append(@, Did("change_state", machine, m.current_state, new_state, TRUE))],
                         state_actions_get(m, new_state))


\* wrapper of TaskQueue.task: the call of a decorated handler only enqueues its body, debounced
wrapper(w, func_name) == [w EXCEPT !.tq = enqueue_task(w.tq, func_name, ThunkOf(func_name), TRUE, DEFAULT_TASK_DELAY)]

\* the bodies of the decorated handlers
on_minimize_event_handler(w) ==
    IF w.root_state = "iconic" THEN fsm_change_state(w, "window_fsm", "minimized") ELSE w

on_restore_event_handler(w) ==
    IF w.root_state = "normal" /\ ~w.is_window_fullscreen
    THEN LET w1 == IF w.window_fsm.current_state = "maximized" /\ w.window_fsm.previous_state = "fullscreen"
                   THEN [w EXCEPT !.root_size = w.app_size]
                   ELSE w
         IN fsm_change_state(w1, "window_fsm", "restored")
    ELSE w

on_maximize_event_handler(w) == fsm_change_state(w, "window_fsm", "maximized")

on_fullscreen_event_handler(w) == fsm_change_state(w, "window_fsm", "fullscreen")

on_cursor_enter_event_handler(w) == fsm_change_state(w, "cursor_fsm", "enter")

on_cursor_leave_event_handler(w) == fsm_change_state(w, "cursor_fsm", "leave")

\* task() of process_queue for a thunk of the App
task_call(w, func_name) ==
    CASE func_name = "on_minimize_event_handler" -> on_minimize_event_handler(w)
      [] func_name = "on_restore_event_handler" -> on_restore_event_handler(w)
      [] func_name = "on_maximize_event_handler" -> on_maximize_event_handler(w)
      [] func_name = "on_fullscreen_event_handler" -> on_fullscreen_event_handler(w)
      [] func_name = "on_cursor_enter_event_handler" -> on_cursor_enter_event_handler(w)
      [] func_name = "on_cursor_leave_event_handler" -> on_cursor_leave_event_handler(w)
      [] OTHER -> w

\* the handler bound to <Configure>: not decorated, it runs when the notification arrives
on_configure_event_handler(w, size) ==
    LET w1 == IF w.window_fsm.current_state \in {"restored", "resized"} /\ w.root_state # "zoomed"
              THEN [w EXCEPT !.app_geometry_before_maximized = winfo(w)]
              ELSE w
    IN IF w1.app_size = size THEN w1
       ELSE IF w1.root_state = "zoomed"
       THEN IF w1.window_fsm.current_state # "maximized" /\ ~w1.is_window_fullscreen
            THEN wrapper(w1, "on_maximize_event_handler")
            ELSE w1
       ELSE IF w1.root_state = "normal"
       THEN IF w1.window_fsm.current_state = "restored"
            THEN fsm_change_state([w1 EXCEPT !.app_size = size], "window_fsm", "resized")
            ELSE wrapper(w1, "on_restore_event_handler")
       ELSE w1

minimize_window(w) == [w EXCEPT !.is_window_fullscreen = FALSE, !.root_state = "iconic"]

maximize_window(w) == [w EXCEPT !.is_window_fullscreen = FALSE, !.root_state = "zoomed"]

fullscreen_window(w) == wrapper([w EXCEPT !.is_window_fullscreen = TRUE], "on_fullscreen_event_handler")

\* a bug: the window is always put back to normal
restore_window_normal(w) == [w EXCEPT !.is_window_fullscreen = FALSE, !.root_state = "normal"]

restore_window(w) ==
    [w EXCEPT !.is_window_fullscreen = FALSE,
              !.root_state = IF w.window_fsm.previous_state = "maximized" THEN "zoomed" ELSE "normal"]

on_f11_keypress(w) ==
    IF w.window_fsm.current_state = "fullscreen" THEN restore_window(w) ELSE fullscreen_window(w)

on_esc_keypress(w) ==
    IF w.window_fsm.current_state = "fullscreen" THEN restore_window(w) ELSE w

\* a bug: a menu that was hidden by the toggle is not brought back by it
on_alt_keypress_hides(w) ==
    IF w.window_fsm.current_state = "fullscreen" /\ w.page_fsm.current_state = "img"
    THEN IF w.menu_status_fsm.current_state = "shown"
         THEN fsm_change_state(w, "menu_status_fsm", "hidden")
         ELSE IF w.menu_status_fsm.previous_state = "shown" THEN w
         ELSE fsm_change_state(w, "menu_status_fsm", "shown")
    ELSE w

on_alt_keypress(w) ==
    IF w.window_fsm.current_state = "fullscreen" /\ w.page_fsm.current_state = "img"
    THEN IF w.menu_status_fsm.current_state = "shown"
         THEN fsm_change_state(w, "menu_status_fsm", "hidden")
         ELSE fsm_change_state(w, "menu_status_fsm", "shown")
    ELSE w

\* with a selection the dialog leaves current_image_file_path set, then the img page is entered
\* with one file selected the directory is listed and the index is the file's
\* position in the listing; with several the selection is the list and the index is 0
load_other_img_files_of_current_dir(w) ==
    [w EXCEPT !.current_image_file_paths = [k \in 1..w.listing.n |-> k], !.current_image_file_idx = <<w.listing.at>>]

open_choose_img_files_dialog_and_show(w, file) ==
    fsm_change_state(load_other_img_files_of_current_dir([w EXCEPT !.image = file]), "page_fsm", "img")

\* current_image_file_path becomes the path at the index; Image.open raises on
\* a file it cannot read, and the exception leaves the caller too
show_idx_img(w) ==
    IF w.readable THEN [w EXCEPT !.image = "ok"]
    ELSE [w EXCEPT !.image = "broken", !.log = Append(@, Did("raise", None, None, "show_idx_img", FALSE))]

\* a bug: the index is taken below 0 and not brought round to the last path
show_prev_img_unwrapped(w) ==
    IF Len(w.current_image_file_paths) > 0
    THEN LET w1 == show_img_page_arrow_buttons([w EXCEPT !.current_image_file_idx = <<@[1] - 1>>])
         IN IF w.readable THEN hide_img_page_arrow_buttons(show_idx_img(w1)) ELSE show_idx_img(w1)
    ELSE w

show_prev_img(w) ==
    IF Len(w.current_image_file_paths) > 0
    THEN LET idx == w.current_image_file_idx[1] - 1
             w1 == [w EXCEPT !.current_image_file_idx = <<IF idx < 0 THEN Len(w.current_image_file_paths) - 1 ELSE idx>>]
             w2 == show_img_page_arrow_buttons(w1)
         IN IF w.readable THEN hide_img_page_arrow_buttons(show_idx_img(w2)) ELSE show_idx_img(w2)
    ELSE w

show_next_img(w) ==
    IF Len(w.current_image_file_paths) > 0
    THEN LET idx == w.current_image_file_idx[1] + 1
             w1 == [w EXCEPT !.current_image_file_idx = <<IF idx = Len(w.current_image_file_paths) THEN 0 ELSE idx>>]
             w2 == show_img_page_arrow_buttons(w1)
         IN IF w.readable THEN hide_img_page_arrow_buttons(show_idx_img(w2)) ELSE show_idx_img(w2)
    ELSE w

close_current_img(w) == fsm_change_state(w, "page_fsm", "home")

\* a notification reaches its bound handler: what the handler finds is kept for the record
notified(w, name, size) ==
    [w EXCEPT !.log = Append(@, Did("notification", None, None, name, TRUE)),
              !.seen = Append(@, [name |-> name, size |-> size, window |-> w.window_fsm.current_state, root_state |-> w.root_state,
                                  fullscreen |-> w.is_window_fullscreen, app_size |-> w.app_size])]

on_unmap(w) == wrapper(notified(w, "Unmap", None), "on_minimize_event_handler")

on_map(w) == wrapper(notified(w, "Map", None), "on_restore_event_handler")

on_configure(w, size) == on_configure_event_handler(notified(w, "Configure", size), size)

on_enter(w) == wrapper(notified(w, "Enter", None), "on_cursor_enter_event_handler")

on_leave(w) == wrapper(notified(w, "Leave", None), "on_cursor_leave_event_handler")

\* the platform tells the App what a callback, or the user, did to the window: Unmap
\* when it was iconified, Map when it came back, Configure when its size changed
platform_notifies(w0, w) ==
    LET w1 == IF w0.root_state # "iconic" /\ w.root_state = "iconic" THEN on_unmap(w)
              ELSE IF w0.root_state = "iconic" /\ w.root_state # "iconic" THEN on_map(w)
              ELSE w
    IN IF w.root_state # "iconic" /\ winfo(w) # winfo(w0) THEN on_configure(w1, winfo(w)) ELSE w1

\* the thunk process_queue has just made the top frame runs and returns
run_started(w) ==
    IF w.tq.stack = <<>> THEN w
    ELSE LET func_name == w.tq.stack[Len(w.tq.stack)].key
             w1 == task_call([w EXCEPT !.log = Append(@, Did("task", None, None, func_name, TRUE))], func_name)
         IN [w1 EXCEPT !.tq = task_returned(w1.tq, func_name)]

\* a due after() callback of the running App
app_timer_callback(w, t) ==
    IF t.kind = "recompute"
    THEN handle_all_items_on_resize([w EXCEPT !.tq.timers = @ \ {t}])
    ELSE run_started([w EXCEPT !.tq = timer_callback(w.tq, t)])

\* successful change_state calls on a machine in a callback's record
Moves(log, machine) == Cardinality({i \in 1..Len(log) : log[i].what = "change_state" /\ log[i].machine = machine /\ log[i].ok})

\* how often a callback's record holds an entry of a kind
Times(log, what) == Cardinality({i \in 1..Len(log) : log[i].what = what})

\* the Configure notifications among the notifications of a callback
Configures(seen) == {i \in 1..Len(seen) : seen[i].name = "Configure"}

Quiescent == timers = {} /\ stack = <<>> /\ \A k \in DOMAIN task_queues : task_queues[k] = <<>>

NoStorm == [n |-> 0, last |-> None, gap |-> 0, ran |-> 0, moved |-> 0]

NoNav == [op |-> "none", from |-> <<>>, op_before |-> "none", from_before |-> <<>>]

\* the prev/next steps made in a row since the list was last set
NavAfter(op) ==
    IF op \in {"Next", "Prev"}
    THEN [op |-> op, from |-> current_image_file_idx, op_before |-> nav_call.op, from_before |-> nav_call.from]
    ELSE IF op = "Open" THEN NoNav
    ELSE nav_call

NoAltRun == [n |-> 0, before |-> None, last |-> None, before_fullscreen_img |-> FALSE, last_fullscreen_img |-> FALSE]

NoEpisode == [seen |-> FALSE, sync |-> 0, late |-> 0, disturbed |-> FALSE]

\* the last callback, the state it found and what it did
AppCall(op, arg, w) ==
    [op |-> op, arg |-> arg, log |-> w.log, seen |-> w.seen, window |-> window_fsm.current_state, page |-> page_fsm.current_state,
     menu |-> menu_status_fsm.current_state, root_state |-> root_state, fullscreen |-> is_window_fullscreen]

\* Configure notifications that follow each other at the storm's gap, and what ran since the first
StormAfter(op, arg, w) ==
    IF op \in {"callback", "recompute"}
    THEN [storm EXCEPT !.ran = @ + Times(w.log, "task"), !.moved = @ + Moves(w.log, "window_fsm")]
    ELSE IF Configures(w.seen) = {} THEN NoStorm
    ELSE IF storm.n > 0 /\ storm.gap \in EventGaps
    THEN [storm EXCEPT !.n = @ + 1, !.last = winfo(w), !.gap = 0, !.moved = @ + Moves(w.log, "window_fsm")]
    ELSE [n |-> 1, last |-> winfo(w), gap |-> 0, ran |-> 0, moved |-> Moves(w.log, "window_fsm")]

\* Alt presses with no other input between them: the menu state each of the last
\* two found, and whether it found the window in fullscreen on the img page
AltAfter(op, arg, w) ==
    IF op = "Alt"
    THEN [n |-> alt_run.n + 1, before |-> alt_run.last, last |-> menu_status_fsm.current_state,
          before_fullscreen_img |-> alt_run.last_fullscreen_img,
          last_fullscreen_img |-> window_fsm.current_state = "fullscreen" /\ page_fsm.current_state = "img"]
    ELSE IF op \in {"callback", "recompute"} THEN alt_run
    ELSE NoAltRun

\* a Configure seen in restored while the platform window is zoomed, and the recomputes that followed
EpisodeAfter(op, arg, w) ==
    IF op = "callback" THEN [episode EXCEPT !.sync = @ + Times(w.log, "recompute")]
    ELSE IF op = "recompute" THEN [episode EXCEPT !.late = @ + Times(w.log, "recompute")]
    ELSE IF \E i \in Configures(w.seen) : w.seen[i].root_state = "zoomed" /\ w.seen[i].window = "restored"
    THEN [seen |-> TRUE, sync |-> 0, late |-> 0, disturbed |-> FALSE]
    ELSE [episode EXCEPT !.disturbed = TRUE]

SetApp(w) ==
    /\ root' = w.tq.root
    /\ task_queues' = w.tq.task_queues
    /\ running_tasks' = w.tq.running_tasks
    /\ debounce_tasks' = w.tq.debounce_tasks
    /\ timers' = w.tq.timers
    /\ stack' = w.tq.stack
    /\ window_fsm' = w.window_fsm
    /\ page_fsm' = w.page_fsm
    /\ cursor_fsm' = w.cursor_fsm
    /\ menu_status_fsm' = w.menu_status_fsm
    /\ is_window_fullscreen' = w.is_window_fullscreen
    /\ root_state' = w.root_state
    /\ root_size' = w.root_size
    /\ app_size' = w.app_size
    /\ app_geometry_before_maximized' = w.app_geometry_before_maximized
    /\ menubar' = w.menubar
    /\ menu_entries' = w.menu_entries
    /\ status_frame' = w.status_frame
    /\ buttons' = w.buttons
    /\ arrows' = w.arrows
    /\ image' = w.image
    /\ current_image_file_paths' = w.current_image_file_paths
    /\ current_image_file_idx' = w.current_image_file_idx

\* one callback of the event loop has run to its end, and the platform has told
\* the App what the callback did to the window
Effect(op, arg, w) ==
    /\ SetApp(platform_notifies(App, w))
    /\ app_call' = AppCall(op, arg, platform_notifies(App, w))
    /\ alt_run' = AltAfter(op, arg, platform_notifies(App, w))
    /\ episode' = EpisodeAfter(op, arg, platform_notifies(App, w))
    /\ nav_call' = NavAfter(op)
    /\ UNCHANGED <<nextThunk, appendLog, startLog, lastDeb, coalesced, spaced, superseded, sinceReturn, startGap, calls, raised, fsmvars, dmvars>>

Ran(op, arg, w) == Effect(op, arg, w) /\ UNCHANGED storm

\* the same, with the train of Configure notifications followed
RanInStorm(op, arg, w) == Effect(op, arg, w) /\ storm' = StormAfter(op, arg, platform_notifies(App, w))

\* the event loop is idle and has room for another input
Input == stack = <<>> /\ events < MaxEvents /\ events' = events + 1

\* App.run() up to root.mainloop(): the machines are declared, the queue has its root,
\* the home page is rendered and the window is mapped in its default geometry
InitApp ==
    /\ root = Tk
    /\ task_queues = <<>>
    /\ running_tasks = <<>>
    /\ debounce_tasks = <<>>
    /\ timers = {}
    /\ stack = <<>>
    /\ nextThunk = 1
    /\ appendLog = [k \in AppKeys |-> <<>>]
    /\ startLog = [k \in AppKeys |-> <<>>]
    /\ lastDeb = [k \in AppKeys |-> NoCall]
    /\ coalesced = {}
    /\ spaced = {}
    /\ superseded = {}
    /\ sinceReturn = [k \in AppKeys |-> NoGap]
    /\ startGap = [k \in AppKeys |-> NoGap]
    /\ calls = <<>>
    /\ raised = {}
    /\ IdleFSM
    /\ IdleDM
    /\ window_fsm = window_fsm_declared
    /\ page_fsm = enter_state(page_fsm_declared, "home")
    /\ cursor_fsm = cursor_fsm_declared
    /\ menu_status_fsm = menu_status_fsm_declared
    /\ is_window_fullscreen = FALSE
    /\ root_state = "normal"
    /\ root_size = "w1"
    /\ app_size = "w0"
    /\ app_geometry_before_maximized = "w0"
    /\ menubar = "shown"
    /\ menu_entries = [Maximize |-> TRUE, Fullscreen |-> TRUE, Restore |-> FALSE, Close |-> FALSE]
    /\ status_frame = TRUE
    /\ buttons = FALSE
    /\ arrows = FALSE
    /\ image = None
    /\ events = 0
    /\ app_call = [op |-> "run", arg |-> None, log |-> <<>>, seen |-> <<>>, window |-> "__init__", page |-> "__init__", menu |-> "__init__", root_state |-> "normal", fullscreen |-> FALSE]
    /\ storm = NoStorm
    /\ alt_run = NoAltRun
    /\ episode = NoEpisode
    /\ current_image_file_paths = <<>>
    /\ current_image_file_idx = <<>>
    /\ nav_call = NoNav

\* <Unmap> of some widget arrives
Unmap == Input /\ Ran("Unmap", None, on_unmap(App))

\* <Map> of some widget arrives
Map == Input /\ Ran("Map", None, on_map(App))

\* <Configure> of some widget arrives with the width and height of its event
Configure(size) == Input /\ Ran("Configure", size, on_configure(App, size))

\* <Enter> arrives
Enter == Input /\ Ran("Enter", None, on_enter(App))

\* <Leave> arrives
Leave == Input /\ Ran("Leave", None, on_leave(App))

F11 == Input /\ Ran("F11", None, on_f11_keypress(App))

Escape == Input /\ Ran("Escape", None, on_esc_keypress(App))

Alt == Input /\ Ran("Alt", None, on_alt_keypress(App))

\* View > Window > Minimize
MenuMinimize == Input /\ menubar = "shown" /\ Ran("Minimize", None, minimize_window(App))

\* View > Window > Maximize, while the entry is active
MenuMaximize == Input /\ menubar = "shown" /\ menu_entries.Maximize /\ Ran("Maximize", None, maximize_window(App))

\* View > Window > Fullscreen, while the entry is active
MenuFullscreen == Input /\ menubar = "shown" /\ menu_entries.Fullscreen /\ Ran("Fullscreen", None, fullscreen_window(App))

\* View > Window > Restore, while the entry is active
MenuRestore == Input /\ menubar = "shown" /\ menu_entries.Restore /\ Ran("Restore", None, restore_window(App))

\* File > Open file(s)... or a click on the home page, with a selection made in the dialog
OpenImage(file, size) ==
    /\ Input
    /\ menubar = "shown" \/ page_fsm.current_state = "home"
    /\ Ran("Open", file, open_choose_img_files_dialog_and_show([App EXCEPT !.grow = size], file))

\* File > Close image, while the entry is active; the bundled picture of the home page may be gone
CloseImage(resource) ==
    /\ Input
    /\ menubar = "shown"
    /\ menu_entries.Close
    /\ Ran("Close", resource, close_current_img([App EXCEPT !.resource = resource]))

\* the user iconifies, restores, zooms or resizes the window through the window manager
WindowManager(st, size) ==
    /\ Input
    /\ <<st, size>> # <<root_state, root_size>>
    /\ Ran("WindowManager", st, [App EXCEPT !.root_state = st, !.root_size = size])

\* the idle event loop runs a due callback
AppTimer ==
    /\ stack = <<>>
    /\ \E t \in timers, over \in BOOLEAN :
        /\ t.left = 0
        /\ Ran(IF t.kind = "recompute" THEN "recompute" ELSE "callback", t.key, app_timer_callback([App EXCEPT !.pointer_over = over], t))
    /\ UNCHANGED events

\* time passes while the event loop is idle and no callback is due, up to the next due callback
Advance(d) ==
    /\ stack = <<>>
    /\ \A t \in timers : t.left >= d
    /\ \E t \in timers : t.left = d
    /\ timers' = {[t EXCEPT !.left = @ - d] : t \in timers}
    /\ UNCHANGED <<root, task_queues, running_tasks, debounce_tasks, stack, nextThunk, appendLog, startLog, lastDeb, coalesced, spaced, superseded, sinceReturn, startGap, calls, raised, fsmvars, dmvars>>
    /\ UNCHANGED <<window_fsm, page_fsm, cursor_fsm, menu_status_fsm, is_window_fullscreen, root_state, root_size, app_size, app_geometry_before_maximized, menubar, menu_entries, status_frame, buttons, arrows, image, events, app_call, storm, alt_run, episode, current_image_file_paths, current_image_file_idx, nav_call>>

NextApp ==
    \/ Unmap
    \/ Map
    \/ \E size \in Sizes \cup {Screen} : Configure(size)
    \/ Enter
    \/ Leave
    \/ F11
    \/ Escape
    \/ Alt
    \/ MenuMinimize
    \/ MenuMaximize
    \/ MenuFullscreen
    \/ MenuRestore
    \/ \E file \in {"ok", "broken"}, size \in Sizes : OpenImage(file, size)
    \/ \E resource \in BOOLEAN : CloseImage(resource)
    \/ \E st \in RootStates, size \in Sizes : WindowManager(st, size)
    \/ AppTimer
    \/ \E d \in 1..RecomputeDelay : Advance(d)

SpecApp == InitApp /\ [][NextApp]_vars


\* the window scenarios: the window manager, stray Configure events and the F11 key
InWindow == stack = <<>> /\ events < MaxWindowInputs /\ events' = events + 1

\* the user changes the window's state, or its size, through the window manager
WindowChanged(st, size) ==
    /\ InWindow
    /\ (st = root_state) # (size = root_size)
    /\ Ran("WindowManager", st, [App EXCEPT !.root_state = st, !.root_size = size])

ConfigureSeen(size) == InWindow /\ Ran("Configure", size, on_configure(App, size))

F11Pressed == InWindow /\ Ran("F11", None, on_f11_keypress(App))

NextWindow ==
    \/ \E st \in RootStates, size \in Sizes : WindowChanged(st, size)
    \/ \E size \in Sizes \cup {Screen} : ConfigureSeen(size)
    \/ F11Pressed
    \/ AppTimer
    \/ \E d \in 1..RecomputeDelay : Advance(d)

SpecWindow == InitApp /\ [][NextWindow]_vars

\* the menu toggle scenarios: an image is opened, F11 and Alt are pressed
InToggle == stack = <<>> /\ events < MaxToggleInputs /\ events' = events + 1

ImageOpened(file) ==
    /\ InToggle
    /\ menubar = "shown" \/ page_fsm.current_state = "home"
    /\ Ran("Open", file, open_choose_img_files_dialog_and_show(App, file))

F11Toggled == InToggle /\ Ran("F11", None, on_f11_keypress(App))

AltToggled == InToggle /\ Ran("Alt", None, on_alt_keypress(App))

NextToggle ==
    \/ \E file \in {"ok", "broken"} : ImageOpened(file)
    \/ F11Toggled
    \/ AltToggled
    \/ AppTimer
    \/ \E d \in 1..RecomputeDelay : Advance(d)

SpecToggle == InitApp /\ [][NextToggle]_vars

\* the resize storm scenarios: the user drags the window's border
InStorm == stack = <<>> /\ events < MaxStormInputs /\ events' = events + 1

Resized(size) ==
    /\ InStorm
    /\ root_state = "normal"
    /\ size # root_size
    /\ RanInStorm("WindowManager", "normal", [App EXCEPT !.root_size = size])

StormTimer ==
    /\ stack = <<>>
    /\ \E t \in timers :
        /\ t.left = 0
        /\ RanInStorm(IF t.kind = "recompute" THEN "recompute" ELSE "callback", t.key, app_timer_callback(App, t))
    /\ UNCHANGED events

\* time passes while the event loop is idle and no callback is due: up to the
\* next due callback, or, right after a notification, by the gap of a storm
StormAdvance(d) ==
    /\ stack = <<>>
    /\ \A t \in timers : t.left >= d
    /\ (d \in EventGaps /\ storm.gap = 0) \/ \E t \in timers : t.left = d
    /\ timers' = {[t EXCEPT !.left = @ - d] : t \in timers}
    /\ storm' = [storm EXCEPT !.gap = IF @ = 0 /\ d \in EventGaps THEN d ELSE RecomputeDelay]
    /\ UNCHANGED <<root, task_queues, running_tasks, debounce_tasks, stack, nextThunk, appendLog, startLog, lastDeb, coalesced, spaced, superseded, sinceReturn, startGap, calls, raised, fsmvars, dmvars>>
    /\ UNCHANGED <<window_fsm, page_fsm, cursor_fsm, menu_status_fsm, is_window_fullscreen, root_state, root_size, app_size, app_geometry_before_maximized, menubar, menu_entries, status_frame, buttons, arrows, image, events, app_call, alt_run, episode, current_image_file_paths, current_image_file_idx, nav_call>>

NextStorm ==
    \/ \E size \in Sizes : Resized(size)
    \/ StormTimer
    \/ \E d \in 1..RecomputeDelay : StormAdvance(d)

SpecStorm == InitApp /\ [][NextStorm]_vars

\* the navigation scenarios: images are opened from directories of up to
\* MaxPaths image files and stepped through with the arrow keys and buttons;
\* none of these callbacks queues a task, so the timer has nothing to run
MaxPaths == 3

MaxNavInputs == 4

InNavigate == stack = <<>> /\ events < MaxNavInputs /\ events' = events + 1

DirectoryOpened(n, at) ==
    /\ InNavigate
    /\ menubar = "shown" \/ page_fsm.current_state = "home"
    /\ Ran("Open", "ok", open_choose_img_files_dialog_and_show([App EXCEPT !.listing = [n |-> n, at |-> at]], "ok"))

\* <Right> on the img page's frame, or a click on the right button
NextPressed(over, readable) ==
    /\ InNavigate
    /\ page_fsm.current_state = "img"
    /\ Ran("Next", None, show_next_img([App EXCEPT !.pointer_over = over, !.readable = readable]))

\* <Left> on the img page's frame, or a click on the left button
PrevPressed(over, readable) ==
    /\ InNavigate
    /\ page_fsm.current_state = "img"
    /\ Ran("Prev", None, show_prev_img([App EXCEPT !.pointer_over = over, !.readable = readable]))

NextNavigate ==
    \/ \E n \in 1..MaxPaths : \E at \in 0..(n - 1) : DirectoryOpened(n, at)
    \/ \E over, readable \in BOOLEAN : NextPressed(over, readable)
    \/ \E over, readable \in BOOLEAN : PrevPressed(over, readable)

SpecNavigate == InitApp /\ [][NextNavigate]_vars


---------------------------------------------------------------------------
(* App properties *)

\* the change_state calls a callback made on a machine, in order
Attempts(log, machine) == {i \in 1..Len(log) : log[i].what = "change_state" /\ log[i].machine = machine}

\* C12: the Window machine permits exactly __init__ -> restored, resized, maximized,
\* minimized, fullscreen; restored -> resized, maximized, minimized, fullscreen;
\* resized -> restored, maximized, minimized, fullscreen; maximized -> restored,
\* fullscreen; minimized -> restored; fullscreen -> restored, maximized; and every
\* change_state on it goes through exactly when that table permits it.
C12_WindowTransitionTable ==
    LET table == [from \in {"__init__", "restored", "resized", "maximized", "minimized", "fullscreen"} |->
                    CASE from = "__init__" -> {"restored", "resized", "maximized", "minimized", "fullscreen"}
                      [] from = "restored" -> {"resized", "maximized", "minimized", "fullscreen"}
                      [] from = "resized" -> {"restored", "maximized", "minimized", "fullscreen"}
                      [] from = "maximized" -> {"restored", "fullscreen"}
                      [] from = "minimized" -> {"restored"}
                      [] from = "fullscreen" -> {"restored", "maximized"}]
    IN /\ DOMAIN window_fsm.transitions = DOMAIN table
       /\ \A from \in DOMAIN table : SeqSet(window_fsm.transitions[from]) = table[from]
       /\ window_fsm.current_state \in DOMAIN table
       /\ \A i \in Attempts(app_call.log, "window_fsm") :
            app_call.log[i].ok <=> app_call.log[i].to \in table[app_call.log[i].from]

\* a change_state('minimized') was rejected in maximized
C12_Witness ==
    \E i \in Attempts(app_call.log, "window_fsm") :
        app_call.log[i].from = "maximized" /\ app_call.log[i].to = "minimized" /\ ~app_call.log[i].ok


\* C13: when a Configure event is seen in restored while the platform window is
\* zoomed and no other input follows, then once every callback has run the Window
\* machine is in maximized and the layout recompute has been invoked exactly
\* twice: once by the callback that entered maximized, once by the delayed one.
C13_ZoomedLeadsToMaximized ==
    episode.seen /\ ~episode.disturbed /\ Quiescent =>
        /\ window_fsm.current_state = "maximized"
        /\ episode.sync = 1
        /\ episode.late = 1

\* C14: after 5 Configure notifications 10 ms apart, once every callback has run,
\* exactly one task was executed, the Window machine made exactly one transition,
\* and the recorded app_width, app_height are those of the 5th notification.
C14_StormHandledOnceWithLastGeometry ==
    storm.n = 5 /\ Quiescent =>
        /\ storm.ran = 1
        /\ storm.moved = 1
        /\ app_size = storm.last

C16_FullscreenImgHidesMenu ==
    (\E i \in Attempts(app_call.log, "window_fsm") : app_call.log[i].to = "fullscreen" /\ app_call.log[i].ok) /\ app_call.page = "img" =>
        /\ menu_status_fsm.current_state = "hidden"
        /\ menubar = "hidden"

\* fullscreen was entered on the img page while MenuVisibility was not hidden
C16_Witness ==
    /\ \E i \in Attempts(app_call.log, "window_fsm") : app_call.log[i].to = "fullscreen" /\ app_call.log[i].ok
    /\ app_call.page = "img"
    /\ app_call.menu # "hidden"
    /\ menu_status_fsm.current_state = "hidden"

\* C17: when a page's render hook fails in a callback, the Page machine ends in
\* img_error and no exception leaves the callback.
C17_RenderFailureEndsInImgError ==
    (\E i \in 1..Len(app_call.log) : app_call.log[i].what = "render" /\ ~app_call.log[i].ok) =>
        /\ page_fsm.current_state = "img_error"
        /\ Times(app_call.log, "raise") = 0

\* whether entry i of a callback's record was made by a task the queue started,
\* and not by the handler of a notification that arrived after it
InTask(log, i) == \E j \in 1..(i - 1) : log[j].what = "task" /\ \A k \in (j + 1)..(i - 1) : log[k].what # "notification"

\* C18: every change_state on the Window and the CursorHover machine is made
\* inside a task the queue started; none is made by a notification's handler
\* when the notification arrives.
C18_TransitionsOnlyInTasks ==
    \A i \in Attempts(app_call.log, "window_fsm") \cup Attempts(app_call.log, "cursor_fsm") : InTask(app_call.log, i)

\* C19: a task moves the Window machine to a state only if the platform window
\* is in the matching condition when the task runs: iconic for minimized, normal
\* and not fullscreen for restored, zoomed for maximized, the fullscreen flag
\* set for fullscreen.
C19_ConditionReadWhenTaskRuns ==
    \A i \in Attempts(app_call.log, "window_fsm") :
        app_call.log[i].ok /\ InTask(app_call.log, i) =>
            CASE app_call.log[i].to = "minimized" -> app_call.root_state = "iconic"
              [] app_call.log[i].to = "restored" -> app_call.root_state = "normal" /\ ~app_call.fullscreen
              [] app_call.log[i].to = "maximized" -> app_call.root_state = "zoomed"
              [] app_call.log[i].to = "fullscreen" -> app_call.fullscreen
              [] OTHER -> TRUE


\* the successful transitions of a machine among the entries of a callback's log
Entered(log, machine, state) == {i \in Attempts(log, machine) : log[i].ok /\ log[i].to = state}

\* the pointer was found over the canvas when hide_img_page_arrow_buttons looked
PointerOverCanvas(log) == \E i \in 1..Len(log) : log[i].what = "winfo_pointerxy" /\ log[i].ok

PageNames == {"home", "img", "img_error", "dirs_files"}

\* the invocations of a page's render hook among the entries of a callback's log
Rendered(log, page) == {i \in 1..Len(log) : log[i].what = "render" /\ log[i].to = page}

\* the App with the Page machine put on a page, as a callback that changes the page finds it
OnPage(page, resource) == [App EXCEPT !.page_fsm = set_state(@, page), !.resource = resource, !.log = <<>>]

\* C27: from each of the four pages home, img, img_error and dirs_files,
\* change_state to each of the other three succeeds, and every successful
\* transition of the Page machine invokes the render hook of its target page
\* exactly once: as many renders of a page as transitions to it, in every
\* callback that ran and in every transition the table permits. The table is
\* tried where it or the opened image can have changed: as App.run and the
\* open and close operations leave the App; the bundled picture can be missing
\* for the home page, the only one that opens it.
C27_PagesMutuallyTransitionable ==
    /\ \A page \in PageNames :
            Cardinality(Rendered(app_call.log, page)) = Cardinality(Entered(app_call.log, "page_fsm", page))
    /\ \A from, to \in PageNames, resource \in BOOLEAN : from # to /\ (resource \/ to = "home") /\ app_call.op \in {"run", "Open", "Close"} =>
            \A log \in {fsm_change_state(OnPage(from, resource), "page_fsm", to).log} :
                /\ log[1] = Did("change_state", "page_fsm", from, to, TRUE)
                /\ \A page \in PageNames :
                    Cardinality(Rendered(log, page)) = Cardinality(Entered(log, "page_fsm", page))

\* a callback took the Page machine to img and, the render failing, on to
\* img_error, each page rendered once
C27_Witness ==
    /\ Entered(app_call.log, "page_fsm", "img") # {}
    /\ Entered(app_call.log, "page_fsm", "img_error") # {}
    /\ Cardinality(Rendered(app_call.log, "img")) = 1
    /\ Cardinality(Rendered(app_call.log, "img_error")) = 1
    /\ page_fsm.current_state = "img_error"


\* C33: when open_choose_img_files_dialog_and_show returns with a file selected,
\* the img page's render hook has been invoked for the selected image, whatever
\* state the Page machine was in before.
C33_OpenRendersImage ==
    app_call.op = "Open" => Rendered(app_call.log, "img") # {}


\* the Window machine is in fullscreen and the Page machine in img
FullscreenImg == window_fsm.current_state = "fullscreen" /\ page_fsm.current_state = "img"

\* C34: while the Window machine stays in fullscreen and the Page machine in
\* img, a MenuVisibility that an Alt toggle has set to shown stays shown until
\* the next Alt toggle: no timer and no delayed recompute changes it.
C34_ShownUntilNextAlt ==
    [][/\ app_call.op = "Alt"
       /\ app_call.menu = "hidden"
       /\ menu_status_fsm.current_state = "shown"
       /\ FullscreenImg
       /\ FullscreenImg'
       /\ app_call'.op # "Alt"
       => menu_status_fsm'.current_state = "shown"]_vars


C36_MinimizedIffIconic ==
    Quiescent => (window_fsm.current_state = "minimized" <=> root_state = "iconic")


\* the platform state restore_window asks for when the Window machine's
\* previous state is prev
Asked(prev) == IF prev = "maximized" THEN "zoomed" ELSE "normal"

\* C37: restore_window always clears the fullscreen flag and asks the platform
\* for zoomed exactly when the Window machine's previous state is maximized,
\* for normal otherwise. The machine's previous state, while it is in
\* fullscreen, is the state it entered fullscreen from, so F11 or Escape in
\* fullscreen puts the window back to zoomed if and only if fullscreen was
\* entered from maximized.
C37_RestoreGoesBackToMaximized ==
    [][/\ ~restore_window(App').is_window_fullscreen
       /\ restore_window(App').root_state = Asked(window_fsm'.previous_state)
       /\ \A i \in Entered(app_call'.log, "window_fsm", "fullscreen") :
            window_fsm'.current_state = "fullscreen" =>
                /\ on_f11_keypress(App') = restore_window(App')
                /\ on_esc_keypress(App') = restore_window(App')
                /\ restore_window(App').root_state = Asked(app_call'.log[i].from)
       /\ window_fsm.current_state = "fullscreen" /\ window_fsm'.current_state = "fullscreen" =>
            window_fsm'.previous_state = window_fsm.previous_state
       /\ app_call'.op \in {"F11", "Escape"} /\ window_fsm.current_state = "fullscreen" =>
            /\ ~is_window_fullscreen'
            /\ root_state' = Asked(window_fsm.previous_state)]_vars

\* the Window machine went from maximized to fullscreen: restore_window would
\* ask for zoomed
C37_Witness ==
    /\ window_fsm.current_state = "fullscreen"
    /\ window_fsm.previous_state = "maximized"
    /\ is_window_fullscreen
    /\ Entered(app_call.log, "window_fsm", "fullscreen") # {}
    /\ restore_window(App).root_state = "zoomed"
    /\ ~restore_window(App).is_window_fullscreen


\* where a step forward, and a step back, take the index i in a list of n paths
Forward(i, n) == IF i = n - 1 THEN 0 ELSE i + 1

Backward(i, n) == IF i = 0 THEN n - 1 ELSE i - 1

\* C38: with a list of n >= 1 image paths the index stays in 0..n-1 through
\* every show_next_img and show_prev_img; next from n-1 gives 0 and prev from 0
\* gives n-1; a next followed by a prev, or a prev followed by a next, gives
\* back the index they started from.
C38_IndexStaysInRange ==
    Len(current_image_file_paths) > 0 =>
        /\ Len(current_image_file_idx) = 1
        /\ current_image_file_idx[1] \in 0..(Len(current_image_file_paths) - 1)
        /\ nav_call.op = "Next" => current_image_file_idx[1] = Forward(nav_call.from[1], Len(current_image_file_paths))
        /\ nav_call.op = "Prev" => current_image_file_idx[1] = Backward(nav_call.from[1], Len(current_image_file_paths))
        /\ <<nav_call.op_before, nav_call.op>> \in {<<"Next", "Prev">>, <<"Prev", "Next">>} =>
                current_image_file_idx = nav_call.from_before

\* in a list of several paths next went round from the last path to the first
\* and prev went round back to the last
C38_Witness ==
    /\ Len(current_image_file_paths) >= 2
    /\ nav_call.op_before = "Next"
    /\ nav_call.from_before = <<Len(current_image_file_paths) - 1>>
    /\ nav_call.op = "Prev"
    /\ nav_call.from = <<0>>
    /\ current_image_file_idx = <<Len(current_image_file_paths) - 1>>


\* the four machines the App drives
Driven == {window_fsm, page_fsm, cursor_fsm, menu_status_fsm}

\* the current state has an entry in the machine's table
Declared(m) == m.current_state \in DOMAIN m.transitions

\* every state the table permits from a declared state is declared, and none is __init__
Closed(m) ==
    \A from \in DOMAIN m.transitions : \A to \in SeqSet(m.transitions[from]) :
        to \in DOMAIN m.transitions /\ to # "__init__"

\* C39: the current state of the Window, Page, CursorHover and MenuVisibility
\* machines is always a declared state of the machine, whatever change_state
\* calls are made, and a machine that has left __init__ is never in __init__ again.
C39_MachinesWellFormed ==
    [][/\ \A m \in Driven : Declared(m) /\ Closed(m)
       /\ Declared(window_fsm') /\ Declared(page_fsm') /\ Declared(cursor_fsm') /\ Declared(menu_status_fsm')
       /\ window_fsm.current_state # "__init__" => window_fsm'.current_state # "__init__"
       /\ page_fsm.current_state # "__init__" => page_fsm'.current_state # "__init__"
       /\ cursor_fsm.current_state # "__init__" => cursor_fsm'.current_state # "__init__"
       /\ menu_status_fsm.current_state # "__init__" => menu_status_fsm'.current_state # "__init__"]_vars

\* every machine has left __init__, and one of them has changed state again since
C39_Witness ==
    /\ \A m \in Driven : m.current_state # "__init__"
    /\ \E m \in Driven : m.previous_state \notin {None, "__init__"}

====
